---- MODULE Spec2Model ----
(***************************************************************************)
(* A model of the FUSE transport of osxfuse: one character-device slot     *)
(* (struct fuse_device), the session attached to it (struct fuse_data),    *)
(* the tickets of that session with the outbound message queue (ms_head)   *)
(* and the awaited set (aw_head), the server's read/write/ioctl entry      *)
(* points of fuse_device.c and the interrupt machinery of fuse_internal.c. *)
(*                                                                         *)
(* fuse_ipc.c (ticket allocation, the queues' primitives, fdata_set_dead,  *)
(* the standard reply handler, the dispatcher's wait) and fuse_vfsops.c    *)
(* (mount, unmount) are not part of the sources at hand; the operators     *)
(* that stand for them follow the specification text and the way           *)
(* fuse_device.c and fuse_internal.c call them.                            *)
(***************************************************************************)
EXTENDS Integers, Sequences, FiniteSets, TLC

(* ------------------------------------------------------------------ *)
(* Bounds of the model                                                 *)
(* ------------------------------------------------------------------ *)

\* number of ticket objects that can be live at the same time
MaxTickets == 2
\* the session's unique counter is not advanced beyond this value
MaxUnique == 2

(* ------------------------------------------------------------------ *)
(* Program constants                                                   *)
(* ------------------------------------------------------------------ *)

EPERM == 1
ENOENT == 2
EINTR == 4
ENXIO == 6
EBUSY == 16
ENODEV == 19
EINVAL == 22
EAGAIN == 35
EPROTONOSUPPORT == 43
ENOTSUP == 45
ENOTCONN == 57
ENOSYS == 78
KERN_SUCCESS == 0
KERN_FAILURE == 5
\* sizeof(struct fuse_out_header)
OutHeaderSize == 16

Tickets == 1..MaxTickets
\* processes that open the device
Procs == {1, 2}
\* values random() hands out as the slot's nonce
Nonces == {7}
NULL == 0

(* ------------------------------------------------------------------ *)
(* State                                                               *)
(* ------------------------------------------------------------------ *)

VARIABLES
    fdev,       \* the device slot: usecount, pid, random, data (non-NULL?)
    data,       \* the session (struct fuse_data) the slot points to
    tk,         \* the ticket objects of the session
    ms_head,    \* outbound queue: tickets awaiting the server's read
    aw_head,    \* awaited set: tickets awaiting the server's reply
    rd,         \* the server's reader thread: "idle" or "sleeping"
    openers,    \* the processes that hold the slot open
    last,       \* the operation that ran last and what it returned
    drv,        \* the driver's globals and the other slot of the device table
    lib,        \* the user-space library: its inode table and what it asked
                \* of the file system
    vn,         \* the kernel's vnodes: the fuse_vnode_data of each
    thr         \* the threads that are inside an operation of the device
                \* endpoint, each with the line it has reached and the
                \* pointer it has read, and the holder of the slot's mutex

vars == <<fdev, data, tk, ms_head, aw_head, rd, openers, last, drv, lib, vn,
          thr>>

\* no vnode exists, and no thread is inside an endpoint operation
NoVnodes == <<>>
NoThreads == <<>>

NoData == [dead |-> FALSE, opened |-> FALSE, mount_state |-> "FM_NOTMOUNTED",
           ticketer |-> 1, noimplflags |-> {}, inited |-> FALSE,
           xtimes |-> FALSE]
\* noimplflags: the opcodes whose bit is set in data->noimplflags; inited,
\* xtimes: FSESS_INITED and FSESS_XTIMES in data->dataflags

FreeTicket == [live |-> FALSE, tk_unique |-> 0, opcode |-> "NONE",
               tk_aw_handler |-> "NULL", answered |-> FALSE,
               tk_aw_errno |-> 0, ohead_error |-> 0, tk_interrupt |-> NULL,
               killed |-> FALSE, fii_unique |-> 0, waiter |-> "none",
               reached |-> 0, awaited_first |-> FALSE]
\* reached: how many replies have been matched to the ticket (0, 1, or 2 for
\* more than one); awaited_first: the ticket was in the awaited set when it
\* was put on the outbound queue; they are no fields of struct fuse_ticket

NoLast == [op |-> "none", ret |-> 0, unique |-> 0]

(* ------------------------------------------------------------------ *)
(* Helpers on sequences                                                *)
(* ------------------------------------------------------------------ *)

Min(a, b) == IF a <= b THEN a ELSE b

InSeq(s, x) == \E i \in 1..Len(s) : s[i] = x

SeqRemove(s, x) == SelectSeq(s, LAMBDA y : y # x)

\* AwFind as it would be if a reply that matches no ticket were handed to
\* the first ticket of the awaited set
AwFind_FirstOnMiss(K, u) ==
    LET idx == {i \in 1..Len(K.aw) : K.tk[K.aw[i]].tk_unique = u}
    IN  IF idx = {} THEN (IF K.aw = <<>> THEN 0 ELSE K.aw[1])
        ELSE K.aw[CHOOSE i \in idx : \A j \in idx : i <= j]

\* the first ticket of the awaited set whose unique is u, NULL when none
AwFind(K, u) ==
    LET idx == {i \in 1..Len(K.aw) : K.tk[K.aw[i]].tk_unique = u}
    IN  IF idx = {} THEN NULL
        ELSE K.aw[CHOOSE i \in idx : \A j \in idx : i <= j]

(* ------------------------------------------------------------------ *)
(* The session's state as one value K = [data, tk, ms, aw], and        *)
(* the primitives of fuse_ipc.c on it                                  *)
(* ------------------------------------------------------------------ *)

Kernel == [data |-> data, tk |-> tk, ms |-> ms_head, aw |-> aw_head]

fdata_dead_get(K) == K.data.dead

\* sets the dead flag; the sleeping reader of the device is woken (ReadWake)
fdata_set_dead(K) == [K EXCEPT !.data.dead = TRUE]

fticket_answered(K, t) == K.tk[t].answered

fticket_set_answered(K, t) == [K EXCEPT !.tk[t].answered = TRUE]

\* wakeup(ftick): the caller sleeping on the ticket, if any, becomes runnable
fuse_wakeup(K, t) ==
    IF K.tk[t].waiter = "waiting"
    THEN [K EXCEPT !.tk[t].waiter = "woken"]
    ELSE K

fuse_aw_remove(K, t) == [K EXCEPT !.aw = SeqRemove(@, t)]

\* registers the reply handler and enters the ticket in the awaited set;
\* a dead session accepts no ticket
fuse_insert_callback(K, t, handler) ==
    IF fdata_dead_get(K) THEN K
    ELSE [K EXCEPT !.tk[t].tk_aw_handler = handler,
                   !.aw = Append(@, t)]

fuse_remove_callback(K, t) ==
    fuse_aw_remove([K EXCEPT !.tk[t].tk_aw_handler = "NULL"], t)

\* appends the ticket to the outbound queue (and wakes the reader)
fuse_insert_message(K, t) ==
    IF fdata_dead_get(K) THEN K
    ELSE [K EXCEPT !.ms = Append(@, t),
                   !.tk[t].awaited_first =
                       \E i \in 1..Len(K.aw) : K.aw[i] = t]

\* as fuse_insert_message, at the head of the outbound queue
fuse_insert_message_head(K, t) ==
    IF fdata_dead_get(K) THEN K
    ELSE [K EXCEPT !.ms = <<t>> \o @,
                   !.tk[t].awaited_first =
                       \E i \in 1..Len(K.aw) : K.aw[i] = t]

\* the lowest free ticket object
FreeSlot(K) ==
    CHOOSE t \in Tickets : /\ ~K.tk[t].live
                           /\ \A s \in Tickets : ~K.tk[s].live => t <= s

CanAlloc(K) ==
    /\ \E t \in Tickets : ~K.tk[t].live
    /\ K.data.ticketer <= MaxUnique

\* fdisp_make: a fresh ticket for opcode op; its unique is the session's
\* counter, which is advanced
fdisp_make(K, op) ==
    LET t == FreeSlot(K)
        u == K.data.ticketer
    IN  [K EXCEPT !.tk[t] = [FreeTicket EXCEPT !.live = TRUE,
                                               !.tk_unique = u,
                                               !.opcode = op],
                  !.data.ticketer = u + 1]

\* a ticket object is released when nothing refers to it any more: no queue,
\* no waiting caller and, for an INTERRUPT, no interrupted ticket
fuse_ticket_release(K) ==
    LET queued == {K.ms[i] : i \in 1..Len(K.ms)} \cup {K.aw[i] : i \in 1..Len(K.aw)}
        held   == queued \cup {t \in Tickets : K.tk[t].waiter # "none"}
        keep   == held \cup {K.tk[t].tk_interrupt : t \in held}
    IN  IF \A t \in Tickets : K.tk[t].live => t \in keep
        THEN K
        ELSE [K EXCEPT !.tk = [t \in Tickets |->
                                 IF t \in keep THEN K.tk[t] ELSE FreeTicket]]

(* ------------------------------------------------------------------ *)
(* Reply handlers                                                      *)
(* ------------------------------------------------------------------ *)

\* fuse_internal_interrupt_remove: the INTERRUPT is marked answered and its
\* callback removed, so that the read filters it out of the outbound queue
fuse_internal_interrupt_remove(K, i) ==
    fuse_remove_callback(fticket_set_answered(K, i), i)

\* fuse_internal_interrupt_handler as it would be without the test for an
\* INTERRUPT that is answered already
fuse_internal_interrupt_handler_NoTest(K, t) ==
    IF K.tk[t].ohead_error = EAGAIN
    THEN fuse_insert_message_head(
             fuse_insert_callback(
                 [K EXCEPT !.tk[t].ohead_error = 0], t, "interrupt"), t)
    ELSE K

\* fuse_internal_interrupt_handler: the reply to an INTERRUPT. EAGAIN from the
\* server asks for the INTERRUPT to be sent again
fuse_internal_interrupt_handler(K, t) ==
    IF fticket_answered(K, t) THEN K
    ELSE IF K.tk[t].ohead_error = EAGAIN
         THEN fuse_insert_message_head(
                  fuse_insert_callback(
                      [K EXCEPT !.tk[t].ohead_error = 0], t, "interrupt"), t)
         ELSE K

\* fuse_standard_handler: the reply to a request a caller waits for. The
\* ticket is marked answered, the caller is woken, and the INTERRUPT sent for
\* the ticket, if any, is retired
fuse_standard_handler(K, t) ==
    LET K1 == IF fticket_answered(K, t) THEN K
              ELSE fuse_wakeup(
                       [fticket_set_answered(K, t) EXCEPT !.tk[t].tk_aw_errno = 0],
                       t)
    IN  IF K1.tk[t].tk_interrupt # NULL
        THEN fuse_internal_interrupt_remove(K1, K1.tk[t].tk_interrupt)
        ELSE K1

\* ftick->tk_aw_handler(ftick, uio)
RunHandler(K, t) ==
    CASE K.tk[t].tk_aw_handler = "standard"  -> fuse_standard_handler(K, t)
      [] K.tk[t].tk_aw_handler = "interrupt" -> fuse_internal_interrupt_handler(K, t)
      [] OTHER -> K

\* fuse_reject_answers: every awaited ticket is popped, marked answered with
\* ENOTCONN and its waiter woken
RECURSIVE fuse_reject_answers(_)
fuse_reject_answers(K) ==
    IF K.aw = <<>> THEN K
    ELSE LET t  == Head(K.aw)
             K1 == [K EXCEPT !.aw = Tail(@)]
             K2 == [fticket_set_answered(K1, t) EXCEPT !.tk[t].tk_aw_errno = ENOTCONN]
         IN  fuse_reject_answers(fuse_wakeup(K2, t))

\* fuse_internal_interrupt_send as it would be if the INTERRUPT travelled
\* under the unique of the ticket it interrupts
fuse_internal_interrupt_send_SameId(K, t) ==
    LET i  == FreeSlot(K)
        K1 == fdisp_make(K, "INTERRUPT")
        K2 == [K1 EXCEPT !.tk[i].fii_unique = K.tk[t].tk_unique,
                         !.tk[i].tk_unique = K.tk[t].tk_unique,
                         !.tk[i].killed = TRUE,
                         !.tk[t].tk_interrupt = i]
    IN  fuse_insert_message_head(fuse_insert_callback(K2, i, "interrupt"), i)

\* fuse_internal_interrupt_send as it would be if the INTERRUPT were queued
\* behind the requests already waiting
fuse_internal_interrupt_send_Tail(K, t) ==
    LET i  == FreeSlot(K)
        K1 == fdisp_make(K, "INTERRUPT")
        K2 == [K1 EXCEPT !.tk[i].fii_unique = K.tk[t].tk_unique,
                         !.tk[i].killed = TRUE,
                         !.tk[t].tk_interrupt = i]
    IN  fuse_insert_message(fuse_insert_callback(K2, i, "interrupt"), i)

\* fuse_internal_interrupt_send as it would be if it put the INTERRUPT on the
\* outbound queue without entering a callback for it
fuse_internal_interrupt_send_NoCallback(K, t) ==
    LET i  == FreeSlot(K)
        K1 == fdisp_make(K, "INTERRUPT")
        K2 == [K1 EXCEPT !.tk[i].fii_unique = K.tk[t].tk_unique,
                         !.tk[i].killed = TRUE,
                         !.tk[t].tk_interrupt = i]
    IN  fuse_insert_message_head(K2, i)

\* fuse_internal_interrupt_send: a fresh INTERRUPT ticket that names ftick, is
\* never reused (killed) and goes to the head of the outbound queue
fuse_internal_interrupt_send(K, t) ==
    LET i  == FreeSlot(K)
        K1 == fdisp_make(K, "INTERRUPT")
        K2 == [K1 EXCEPT !.tk[i].fii_unique = K.tk[t].tk_unique,
                         !.tk[i].killed = TRUE,
                         !.tk[t].tk_interrupt = i]
    IN  fuse_insert_message_head(fuse_insert_callback(K2, i, "interrupt"), i)

\* fuse_device_close_final: the session is destroyed and the slot reset
DestroyedKernel ==
    [data |-> NoData, tk |-> [t \in Tickets |-> FreeTicket], ms |-> <<>>,
     aw |-> <<>>]

\* the state after an operation: the references dropped by it are released
Commit(K) ==
    IF K = Kernel THEN UNCHANGED <<data, tk, ms_head, aw_head>>
    ELSE LET R == fuse_ticket_release(K)
         IN  /\ data' = R.data
             /\ tk' = R.tk
             /\ ms_head' = R.ms
             /\ aw_head' = R.aw

Result(op, ret, u) == last' = [op |-> op, ret |-> ret, unique |-> u]

(* ------------------------------------------------------------------ *)
(* Init                                                                *)
(* ------------------------------------------------------------------ *)

\* the driver after fuse_devices_start: the interface is available, the
\* character device is registered, each slot has its device node and mutex;
\* slot2 is the second slot of the table, whose session is not looked into
DriverStarted ==
    [fuse_interface_available |-> TRUE,
     fuse_cdev_major |-> 0,
     cdev |-> [i \in {1, 2} |-> TRUE],
     mtx |-> [i \in {1, 2} |-> TRUE],
     slot2 |-> [usecount |-> 0, pid |-> -1, random |-> 0, data |-> FALSE]]

\* the user-space library is not running
NoLib == [started |-> FALSE]

\* fuse_devices_start: the slot is unused, no session is attached
NoDevice == [usecount |-> 0, pid |-> -1, random |-> 0, data |-> FALSE]

Init ==
    /\ fdev = NoDevice
    /\ data = NoData
    /\ tk = [t \in Tickets |-> FreeTicket]
    /\ ms_head = <<>>
    /\ aw_head = <<>>
    /\ rd = "idle"
    /\ openers = {}
    /\ last = NoLast
    /\ drv = DriverStarted
    /\ lib = NoLib
    /\ vn = NoVnodes
    /\ thr = NoThreads

(* ------------------------------------------------------------------ *)
(* fuse_device_open / fuse_device_close                                *)
(* ------------------------------------------------------------------ *)

\* fuse_device_open as it would be without the check for a lingering session
fuse_device_open_NoLinger(p, r) ==
    IF ~drv.fuse_interface_available
    THEN [ret |-> ENOENT, bind |-> FALSE, fdev |-> fdev]
    ELSE IF fdev.usecount # 0
    THEN [ret |-> EBUSY, bind |-> FALSE, fdev |-> fdev]
    ELSE [ret |-> 0, bind |-> TRUE,
          fdev |-> [usecount |-> fdev.usecount + 1, pid |-> p,
                    random |-> r, data |-> TRUE]]

\* the outcome of fuse_device_open for process p when random() yields r
fuse_device_open(p, r) ==
    IF ~drv.fuse_interface_available
    THEN [ret |-> ENOENT, bind |-> FALSE, fdev |-> fdev]
    ELSE IF fdev.usecount # 0
    THEN [ret |-> EBUSY, bind |-> FALSE, fdev |-> fdev]
    ELSE IF fdev.data
         \* a lingering mount: usecount++ is taken back
         THEN [ret |-> EBUSY, bind |-> FALSE, fdev |-> fdev]
         ELSE [ret |-> 0, bind |-> TRUE,
               fdev |-> [usecount |-> fdev.usecount + 1, pid |-> p,
                         random |-> r, data |-> TRUE]]

Open(p) ==
    \E r \in Nonces :
        LET o == fuse_device_open(p, r)
        IN  /\ fdev' = o.fdev
            /\ IF o.bind
               THEN /\ data' = [NoData EXCEPT !.opened = TRUE]
                    /\ tk' = [t \in Tickets |-> FreeTicket]
                    /\ ms_head' = <<>>
                    /\ aw_head' = <<>>
                    /\ openers' = openers \cup {p}
               ELSE UNCHANGED <<data, tk, ms_head, aw_head, openers>>
            /\ Result("open", o.ret, 0)
            /\ UNCHANGED <<rd, drv, lib, vn, thr>>

\* fuse_device_close as it would be if it destroyed the session whatever the
\* mount state
fuse_device_close_Always(K) ==
    [K |-> DestroyedKernel, final |-> TRUE]

\* the session after fuse_device_close: dead, not opened, answers rejected,
\* destroyed when not mounted
fuse_device_close(K) ==
    LET K1 == fdata_set_dead(K)
        K2 == [K1 EXCEPT !.data.opened = FALSE]
        K3 == fuse_reject_answers(K2)
    IN  IF K3.data.mount_state = "FM_NOTMOUNTED"
        THEN [K |-> DestroyedKernel, final |-> TRUE]
        ELSE [K |-> K3, final |-> FALSE]

\* d_close is called for the process that holds the device open, once no
\* read of it is in progress
Close(p) ==
    /\ p \in openers
    /\ rd = "idle"
    /\ LET c == fuse_device_close(Kernel)
       IN  /\ Commit(c.K)
           /\ fdev' = IF c.final
                      THEN [NoDevice EXCEPT !.usecount = fdev.usecount - 1]
                      ELSE [fdev EXCEPT !.usecount = @ - 1]
    /\ openers' = openers \ {p}
    /\ Result("close", 0, 0)
    /\ UNCHANGED rd
    /\ UNCHANGED <<drv, lib, vn, thr>>

(* ------------------------------------------------------------------ *)
(* fuse_device_read                                                    *)
(* ------------------------------------------------------------------ *)

\* the length of a ticket's request frame (tk_ms_fiov.len), in units: an
\* INTERRUPT frame is shorter than the frame of any other request
FiovLen(K, t) == IF K.tk[t].opcode = "INTERRUPT" THEN 1 ELSE 2

\* the sizes of the buffers the server reads into
ReadSizes == {1, 2}

\* ReadTicket as it would be without the filter for answered tickets
ReadTicket_NoFilter(K, resid) ==
    LET t  == Head(K.ms)
        K1 == [K EXCEPT !.ms = Tail(@)]
        K2 == IF resid < FiovLen(K1, t) THEN fdata_set_dead(K1) ELSE K1
    IN  [K |-> K2,
         ret |-> IF fdata_dead_get(K2) THEN ENODEV ELSE 0,
         unique |-> K.tk[t].tk_unique,
         copied |-> resid >= FiovLen(K1, t),
         sleep |-> FALSE]

\* ReadTicket as it would be if a buffer that is too small only ended the
\* read, with nothing copied
ReadTicket_ShortIsNoError(K, resid) ==
    LET t  == Head(K.ms)
        u  == K.tk[t].tk_unique
        K1 == [K EXCEPT !.ms = Tail(@)]
        K2 == IF fticket_answered(K1, t)
              THEN LET K3 == fuse_remove_callback(K1, t)
                       K4 == IF K3.tk[t].tk_interrupt # NULL
                             THEN fuse_internal_interrupt_remove(
                                      K3, K3.tk[t].tk_interrupt)
                             ELSE K3
                   IN  K4
              ELSE K1
        err == IF fticket_answered(K1, t) THEN EINTR ELSE 0
    IN  [K |-> K2,
         ret |-> IF fdata_dead_get(K2) THEN ENODEV ELSE err,
         unique |-> u,
         copied |-> ~fticket_answered(K1, t) /\ resid >= FiovLen(K1, t),
         sleep |-> FALSE]

\* the part of fuse_device_read after fuse_ms_pop has returned a ticket:
\* an answered ticket is filtered out, any other is copied to the server
\* unless the buffer is too small
ReadTicket(K, resid) ==
    LET t  == Head(K.ms)
        u  == K.tk[t].tk_unique
        K1 == [K EXCEPT !.ms = Tail(@)]
        K2 == IF fticket_answered(K1, t)
              THEN LET K3 == fuse_remove_callback(K1, t)
                       K4 == IF K3.tk[t].tk_interrupt # NULL
                             THEN fuse_internal_interrupt_remove(
                                      K3, K3.tk[t].tk_interrupt)
                             ELSE K3
                   IN  K4
              ELSE IF resid < FiovLen(K1, t)
                   THEN fdata_set_dead(K1)
                   ELSE K1
        err == IF fticket_answered(K1, t) THEN EINTR ELSE 0
    IN  [K |-> K2,
         ret |-> IF fdata_dead_get(K2) THEN ENODEV ELSE err,
         unique |-> u,
         copied |-> ~fticket_answered(K1, t) /\ resid >= FiovLen(K1, t),
         sleep |-> FALSE]

\* fuse_device_read as it would be if the loop did not look at the dead flag
fuse_device_read_NoDeadCheck(K, ndelay, resid) ==
    IF K.ms = <<>>
    THEN IF fdata_dead_get(K) \/ ndelay
         THEN [K |-> K, ret |-> IF fdata_dead_get(K) THEN ENODEV ELSE EAGAIN,
               unique |-> 0, copied |-> FALSE, sleep |-> FALSE]
         ELSE [K |-> K, ret |-> 0, unique |-> 0, copied |-> FALSE,
               sleep |-> TRUE]
    ELSE ReadTicket(K, resid)

\* fuse_device_read as it would be if IO_NDELAY were ignored
fuse_device_read_NoNdelay(K, ndelay, resid) ==
    IF fdata_dead_get(K)
    THEN [K |-> K, ret |-> ENODEV, unique |-> 0, copied |-> FALSE,
          sleep |-> FALSE]
    ELSE IF K.ms = <<>>
         THEN [K |-> K, ret |-> 0, unique |-> 0, copied |-> FALSE,
               sleep |-> TRUE]
         ELSE ReadTicket(K, resid)

\* one pass of the (non-)blocking read loop and what follows it
fuse_device_read(K, ndelay, resid) ==
    IF fdata_dead_get(K)
    THEN [K |-> K, ret |-> ENODEV, unique |-> 0, copied |-> FALSE,
          sleep |-> FALSE]
    ELSE IF K.ms = <<>>
         THEN IF ndelay
              THEN [K |-> K, ret |-> EAGAIN, unique |-> 0, copied |-> FALSE,
                    sleep |-> FALSE]
              ELSE [K |-> K, ret |-> 0, unique |-> 0, copied |-> FALSE,
                    sleep |-> TRUE]
         ELSE ReadTicket(K, resid)

\* the server calls read(2) on the device it holds open
Read(ndelay) ==
    /\ openers # {}
    /\ rd = "idle"
    /\ \E resid \in ReadSizes :
          LET r == fuse_device_read(Kernel, ndelay, resid)
          IN  /\ Commit(r.K)
              /\ rd' = IF r.sleep THEN "sleeping" ELSE "idle"
              /\ IF r.sleep THEN Result("read_sleep", 0, 0)
                 ELSE Result("read", r.ret, r.unique)
    /\ UNCHANGED <<fdev, openers>>
    /\ UNCHANGED <<drv, lib, vn, thr>>

\* the reader sleeping in fuse_msleep is woken by fuse_insert_message or by
\* fdata_set_dead and goes through the loop again
ReadWake ==
    /\ rd = "sleeping"
    /\ fdata_dead_get(Kernel) \/ ms_head # <<>>
    /\ \E resid \in ReadSizes :
          LET r == fuse_device_read(Kernel, FALSE, resid)
          IN  /\ Commit(r.K)
              /\ Result("read", r.ret, r.unique)
    /\ rd' = "idle"
    /\ UNCHANGED <<fdev, openers>>
    /\ UNCHANGED <<drv, lib, vn, thr>>

\* fuse_msleep(.., PCATCH, ..) returns EINTR when the reader is signalled; the
\* loop returns it, or ENODEV when the session has died, without popping
ReadSignal ==
    /\ rd = "sleeping"
    /\ rd' = "idle"
    /\ Result("read", IF fdata_dead_get(Kernel) THEN ENODEV ELSE EINTR, 0)
    /\ UNCHANGED <<fdev, data, tk, ms_head, aw_head, openers>>
    /\ UNCHANGED <<drv, lib, vn, thr>>

(* ------------------------------------------------------------------ *)
(* fuse_device_write                                                   *)
(* ------------------------------------------------------------------ *)

\* the error field of a reply on the wire: the negated errno
WireErrors == {0, 0 - EAGAIN}

\* the replies the server writes, as <<bytes written, length the header
\* declares>>: a truncated header, a bare header, a header with a body, a
\* bare header that declares a body
WriteShapes == {<<OutHeaderSize - 1, OutHeaderSize>>,
                <<OutHeaderSize, OutHeaderSize>>,
                <<OutHeaderSize + 1, OutHeaderSize + 1>>,
                <<OutHeaderSize, OutHeaderSize + 1>>}

\* WriteAudit as it would be without the check of a body that comes with an
\* error
WriteAudit_NoBodyError(resid, ohead) ==
    IF resid < OutHeaderSize THEN EINVAL
    ELSE IF (resid - OutHeaderSize) + OutHeaderSize # ohead.len THEN EINVAL
    ELSE 0

\* the audit of the reply: 0 when it passes, else EINVAL
WriteAudit(resid, ohead) ==
    IF resid < OutHeaderSize THEN EINVAL
    ELSE IF (resid - OutHeaderSize) + OutHeaderSize # ohead.len THEN EINVAL
    ELSE IF (resid - OutHeaderSize) # 0 /\ ohead.error # 0 THEN EINVAL
    ELSE 0

\* WriteMatch as it would be without fuse_aw_remove: the matched ticket stays
\* in the awaited set
WriteMatch_NoRemove(K, ohead) ==
    LET t == AwFind(K, ohead.unique)
        e == 0 - ohead.error
    IN  IF t = NULL THEN [K |-> K, ret |-> 0, found |-> NULL]
        ELSE LET K2 == IF K.tk[t].tk_aw_handler # "NULL"
                       THEN RunHandler(
                                [K EXCEPT !.tk[t].ohead_error = e,
                                          !.tk[t].reached = Min(@ + 1, 2)],
                                t)
                       ELSE K
             IN  [K |-> K2, ret |-> 0, found |-> t]

\* the search of the awaited set and the handler's run
WriteMatch(K, ohead) ==
    LET t == AwFind(K, ohead.unique)
        e == 0 - ohead.error
    IN  IF t = NULL THEN [K |-> K, ret |-> 0, found |-> NULL]
        ELSE LET K1 == fuse_aw_remove(K, t)
                 K2 == IF K1.tk[t].tk_aw_handler # "NULL"
                       THEN RunHandler(
                                [K1 EXCEPT !.tk[t].ohead_error = e,
                                           !.tk[t].reached = Min(@ + 1, 2)],
                                t)
                       ELSE K1
             IN  [K |-> K2, ret |-> 0, found |-> t]

\* fuse_device_write as it would be if a reply that fails the audit killed
\* the session
fuse_device_write_KillOnBad(K, resid, ohead) ==
    IF fdata_dead_get(K) THEN [K |-> K, ret |-> ENOTCONN, found |-> NULL]
    ELSE IF WriteAudit(resid, ohead) # 0
         THEN [K |-> fdata_set_dead(K), ret |-> WriteAudit(resid, ohead),
               found |-> NULL]
         ELSE WriteMatch(K, ohead)

\* the write entry point of the device: dead session, audit, match
fuse_device_write(K, resid, ohead) ==
    IF fdata_dead_get(K) THEN [K |-> K, ret |-> ENOTCONN, found |-> NULL]
    ELSE IF WriteAudit(resid, ohead) # 0
         THEN [K |-> K, ret |-> WriteAudit(resid, ohead), found |-> NULL]
         ELSE WriteMatch(K, ohead)

\* the server asks for an INTERRUPT to be sent again only once it has read
\* that INTERRUPT
AgainAllowed(K, ohead) ==
    LET t == AwFind(K, ohead.unique)
    IN  (/\ t # NULL
         /\ K.tk[t].tk_aw_handler = "interrupt"
         /\ ohead.error = 0 - EAGAIN)
        => ~InSeq(K.ms, t)

\* the server calls write(2) on the device it holds open, with a reply of
\* the given shape
WriteAs(u, e, shape) ==
    /\ openers # {}
    /\ LET resid == shape[1]
           ohead == [len |-> shape[2], error |-> e, unique |-> u]
           w == fuse_device_write(Kernel, resid, ohead)
       IN  /\ AgainAllowed(Kernel, ohead)
           /\ Commit(w.K)
           /\ Result("write", w.ret,
                     IF w.found = NULL THEN 0 ELSE ohead.unique)
    /\ UNCHANGED <<fdev, rd, openers>>
    /\ UNCHANGED <<drv, lib, vn, thr>>

Write(u, e) == \E shape \in WriteShapes : WriteAs(u, e, shape)

(* ------------------------------------------------------------------ *)
(* fuse_device_ioctl / fuse_device_kill                                *)
(* ------------------------------------------------------------------ *)

IoctlCmds == {"FUSEDEVIOCSETDAEMONDEAD", "FUSEDEVIOCGETRANDOM", "other"}

\* fuse_implemented: the opcode's bit is not set in data->noimplflags
fuse_implemented(K, which) == which \notin K.data.noimplflags

\* fuse_clear_implemented as it would be if it assigned the bit instead of
\* or-ing it in
fuse_clear_implemented_Assign(K, which) ==
    [K EXCEPT !.data.noimplflags = {which}]

\* fuse_clear_implemented: the opcode's bit is set in data->noimplflags
fuse_clear_implemented(K, which) ==
    [K EXCEPT !.data.noimplflags = @ \cup {which}]

\* fuse_set_implemented_custom: data->noimplflags = flags
fuse_set_implemented_custom(K, flags) ==
    [K EXCEPT !.data.noimplflags = flags]

\* fuse_device_ioctl as it would be if FUSEDEVIOCGETHANDSHAKECOMPLETE did not
\* look at the mount state
fuse_device_ioctl_NoMountTest(K, cmd, udata) ==
    IF ~fdev.data THEN [K |-> K, ret |-> ENXIO, value |-> 0]
    ELSE CASE cmd = "FUSEDEVIOCSETIMPLEMENTEDBITS" ->
                 [K |-> fuse_set_implemented_custom(K, udata), ret |-> 0,
                  value |-> 0]
           [] cmd = "FUSEDEVIOCGETHANDSHAKECOMPLETE" ->
                 [K |-> K, ret |-> 0,
                  value |-> IF K.data.inited THEN 1 ELSE 0]
           [] cmd = "FUSEDEVIOCSETDAEMONDEAD" ->
                 [K |-> fdata_set_dead(K), ret |-> 0, value |-> 0]
           [] cmd = "FUSEDEVIOCGETRANDOM" ->
                 [K |-> K, ret |-> 0, value |-> fdev.random]
           [] OTHER ->
                 [K |-> K, ret |-> EINVAL, value |-> 0]

\* udata: the argument of FUSEDEVIOCSETIMPLEMENTEDBITS, the set of opcodes
\* whose bit is set in the word the server passes; value: what the call
\* stores through udata, for FUSEDEVIOCGETHANDSHAKECOMPLETE the FSESS_INITED
\* bit (1 when set)
fuse_device_ioctl(K, cmd, udata) ==
    IF ~fdev.data THEN [K |-> K, ret |-> ENXIO, value |-> 0]
    ELSE CASE cmd = "FUSEDEVIOCSETIMPLEMENTEDBITS" ->
                 [K |-> fuse_set_implemented_custom(K, udata), ret |-> 0,
                  value |-> 0]
           [] cmd = "FUSEDEVIOCGETHANDSHAKECOMPLETE" ->
                 IF K.data.mount_state = "FM_NOTMOUNTED"
                 THEN [K |-> K, ret |-> ENXIO, value |-> 0]
                 ELSE [K |-> K, ret |-> 0,
                       value |-> IF K.data.inited THEN 1 ELSE 0]
           [] cmd = "FUSEDEVIOCSETDAEMONDEAD" ->
                 [K |-> fdata_set_dead(K), ret |-> 0, value |-> 0]
           [] cmd = "FUSEDEVIOCGETRANDOM" ->
                 [K |-> K, ret |-> 0, value |-> fdev.random]
           [] OTHER ->
                 [K |-> K, ret |-> EINVAL, value |-> 0]

\* the server calls ioctl(2) on the device it holds open
Ioctl(cmd, udata) ==
    /\ openers # {}
    /\ LET i == fuse_device_ioctl(Kernel, cmd, udata)
       IN  /\ Commit(i.K)
           /\ Result("ioctl", i.ret, 0)
    /\ UNCHANGED <<fdev, rd, openers>>
    /\ UNCHANGED <<drv, lib, vn, thr>>

\* fuse_device_kill; allowed: the requesting process is root or the daemon's
\* user
fuse_device_kill(K, allowed) ==
    IF ~fdev.data THEN [K |-> K, ret |-> ENOENT]
    ELSE IF ~allowed THEN [K |-> K, ret |-> EPERM]
    ELSE [K |-> fuse_reject_answers(fdata_set_dead(K)), ret |-> 0]

Kill(allowed) ==
    /\ LET k == fuse_device_kill(Kernel, allowed)
       IN  /\ Commit(k.K)
           /\ Result("kill", k.ret, 0)
    /\ UNCHANGED <<fdev, rd, openers>>
    /\ UNCHANGED <<drv, lib, vn, thr>>

(* ------------------------------------------------------------------ *)
(* Mount and unmount                                                   *)
(* ------------------------------------------------------------------ *)

\* a file system is mounted on the session the server has opened
Mount ==
    /\ fdev.data
    /\ data.opened
    /\ ~data.dead
    /\ data.mount_state = "FM_NOTMOUNTED"
    /\ data' = [data EXCEPT !.mount_state = "FM_MOUNTED"]
    /\ Result("mount", 0, 0)
    /\ UNCHANGED <<fdev, tk, ms_head, aw_head, rd, openers>>
    /\ UNCHANGED <<drv, lib, vn, thr>>

\* the file system is unmounted once no caller is inside it: the session
\* dies, and it is destroyed when the device has been closed already
Unmount ==
    /\ fdev.data
    /\ data.mount_state = "FM_MOUNTED"
    /\ \A t \in Tickets : tk[t].waiter = "none"
    /\ LET K1 == [fdata_set_dead(Kernel) EXCEPT
                      !.data.mount_state = "FM_NOTMOUNTED"]
       IN  IF ~data.opened
           THEN /\ Commit(DestroyedKernel)
                /\ fdev' = [NoDevice EXCEPT !.usecount = fdev.usecount]
           ELSE /\ Commit(K1)
                /\ fdev' = fdev
    /\ Result("unmount", 0, 0)
    /\ UNCHANGED <<rd, openers>>
    /\ UNCHANGED <<drv, lib, vn, thr>>

(* ------------------------------------------------------------------ *)
(* The dispatcher                                                      *)
(* ------------------------------------------------------------------ *)

\* fdisp_make + fdisp_wait_answ up to the point where the caller sleeps: the
\* ticket enters the awaited set, then the outbound queue
fdisp_wait_answ(K) ==
    LET t  == FreeSlot(K)
        K1 == fdisp_make(K, "REQ")
        K2 == fuse_insert_message(fuse_insert_callback(K1, t, "standard"), t)
    IN  [K2 EXCEPT !.tk[t].waiter = "waiting"]

\* a VFS caller dispatches a request on the mounted session
Dispatch ==
    /\ fdev.data
    /\ data.mount_state = "FM_MOUNTED"
    /\ IF fdata_dead_get(Kernel)
       THEN /\ Result("dispatch", ENOTCONN, 0)
            /\ UNCHANGED <<data, tk, ms_head, aw_head>>
       ELSE /\ CanAlloc(Kernel)
            /\ Commit(fdisp_wait_answ(Kernel))
            /\ Result("dispatch", 0, 0)
    /\ UNCHANGED <<fdev, rd, openers>>
    /\ UNCHANGED <<drv, lib, vn, thr>>

\* the caller waiting for ticket t is signalled: an INTERRUPT is sent and
\* the caller goes on waiting
CallerInterrupt(t) ==
    /\ tk[t].live
    /\ tk[t].waiter = "waiting"
    /\ ~tk[t].answered
    /\ tk[t].tk_interrupt = NULL
    /\ CanAlloc(Kernel)
    /\ Commit(fuse_internal_interrupt_send(Kernel, t))
    /\ Result("interrupt", 0, 0)
    /\ UNCHANGED <<fdev, rd, openers>>
    /\ UNCHANGED <<drv, lib, vn, thr>>

\* the woken caller leaves fdisp_wait_answ with the ticket's result and
\* releases the ticket
CallerReturn(t) ==
    /\ tk[t].live
    /\ tk[t].waiter = "woken"
    /\ Commit([Kernel EXCEPT !.tk[t].waiter = "none"])
    /\ Result("return",
              IF tk[t].tk_aw_errno # 0 THEN tk[t].tk_aw_errno
              ELSE tk[t].ohead_error,
              0)
    /\ UNCHANGED <<fdev, rd, openers>>
    /\ UNCHANGED <<drv, lib, vn, thr>>

(* ------------------------------------------------------------------ *)
(* Specification                                                       *)
(* ------------------------------------------------------------------ *)

Next ==
    \/ \E p \in Procs : Open(p)
    \/ \E p \in Procs : Close(p)
    \/ \E nd \in BOOLEAN : Read(nd)
    \/ ReadWake
    \/ ReadSignal
    \/ \E u \in 0..MaxUnique, e \in WireErrors : Write(u, e)
    \/ \E cmd \in IoctlCmds : Ioctl(cmd, {})
    \/ \E a \in BOOLEAN : Kill(a)
    \/ Mount
    \/ Unmount
    \/ Dispatch
    \/ \E t \in Tickets : CallerInterrupt(t)
    \/ \E t \in Tickets : CallerReturn(t)

Spec == Init /\ [][Next]_vars

\* fuse_internal_forget_send: a FORGET ticket is made and put on the outbound
\* queue; no callback is entered for it, as FORGET has no reply
fuse_internal_forget_send(K) ==
    fuse_insert_message(fdisp_make(K, "FORGET"), FreeSlot(K))

\* the kernel forgets a vnode
ForgetSend ==
    /\ fdev.data
    /\ data.mount_state = "FM_MOUNTED"
    /\ CanAlloc(Kernel)
    /\ Commit(fuse_internal_forget_send(Kernel))
    /\ Result("forget", 0, 0)
    /\ UNCHANGED <<fdev, rd, openers>>
    /\ UNCHANGED <<drv, lib, vn, thr>>

\* the device protocol with the requests that have no reply
QueueNext ==
    \/ \E p \in Procs : Open(p)
    \/ \E p \in Procs : Close(p)
    \/ \E nd \in BOOLEAN : Read(nd)
    \/ ReadWake
    \/ ReadSignal
    \/ \E u \in 0..MaxUnique, e \in WireErrors : Write(u, e)
    \/ \E a \in BOOLEAN : Kill(a)
    \/ Mount
    \/ Unmount
    \/ Dispatch
    \/ ForgetSend
    \/ \E t \in Tickets : CallerInterrupt(t)
    \/ \E t \in Tickets : CallerReturn(t)

QueueSpec == Init /\ [][QueueNext]_vars

(* ------------------------------------------------------------------ *)
(* fuse_internal.c: the optional opcodes and the INIT handshake        *)
(* ------------------------------------------------------------------ *)

\* the tickets a session hands out in the specification of the optional
\* opcodes: INIT and two requests
MaxOpUnique == 3

\* what fdisp_wait_answ returns to the woken caller of ticket t
TicketError(K, t) ==
    IF K.tk[t].tk_aw_errno # 0 THEN K.tk[t].tk_aw_errno
    ELSE K.tk[t].ohead_error

\* fdisp_make_vp + fdisp_wait_answ for opcode op up to the point where the
\* caller sleeps. wire: the caller reached the dispatch; slept: a ticket went
\* on the outbound queue and the caller waits; neither slept nor a return
\* when no ticket can be allocated
fdisp_simple_putget_vp(K, op) ==
    IF fdata_dead_get(K)
    THEN [K |-> K, ret |-> ENOTCONN, wire |-> TRUE, slept |-> FALSE,
          times |-> "none"]
    ELSE IF ~(\E t \in Tickets : ~K.tk[t].live) \/ K.data.ticketer > MaxOpUnique
    THEN [K |-> K, ret |-> 0, wire |-> TRUE, slept |-> FALSE, times |-> "none"]
    ELSE LET t  == FreeSlot(K)
             K1 == fdisp_make(K, op)
             K2 == fuse_insert_message(
                       fuse_insert_callback(K1, t, "standard"), t)
         IN  [K |-> [K2 EXCEPT !.tk[t].waiter = "waiting"], ret |-> 0,
              wire |-> TRUE, slept |-> TRUE, times |-> "none"]

\* a return of the caller that never reached the dispatch
Direct(K, ret, times) ==
    [K |-> K, ret |-> ret, wire |-> FALSE, slept |-> FALSE, times |-> times]

\* the caller is held up at the dispatch for want of a ticket
Blocked(r) == r.wire /\ ~r.slept /\ r.ret = 0

\* fuse_internal_access up to fdisp_wait_answ. defer: the mount defers
\* permissions; denied: the vnode is not the root and the blanket denial
\* applies to the caller
fuse_internal_access(K, defer, denied) ==
    IF defer THEN Direct(K, 0, "none")
    ELSE IF ~fuse_implemented(K, "ACCESS") THEN Direct(K, ENOTSUP, "none")
    ELSE IF denied THEN Direct(K, EPERM, "none")
    ELSE fdisp_simple_putget_vp(K, "ACCESS")

\* fuse_internal_access as it would be without fuse_clear_implemented
fuse_internal_access_answ_NoClear(K, t) ==
    LET err == TicketError(K, t)
        K1  == [K EXCEPT !.tk[t].waiter = "none"]
    IN  IF err = ENOSYS THEN [K |-> K1, ret |-> ENOTSUP, times |-> "none"]
        ELSE [K |-> K1, ret |-> err, times |-> "none"]

\* fuse_internal_access from the return of fdisp_wait_answ on
fuse_internal_access_answ(K, t) ==
    LET err == TicketError(K, t)
        K1  == [K EXCEPT !.tk[t].waiter = "none"]
    IN  IF err = ENOSYS
        THEN [K |-> fuse_clear_implemented(K1, "ACCESS"), ret |-> ENOTSUP,
              times |-> "none"]
        ELSE [K |-> K1, ret |-> err, times |-> "none"]

\* fuse_internal_fsync_vp up to fdisp_wait_answ in fuse_internal_fsync_fh, for
\* a vnode with at most one valid file handle. isdir: the vnode is a
\* directory; nosync: the mount has FSESS_NO_SYNCWRITES; valid: the vnode has
\* a valid file handle
fuse_internal_fsync_vp(K, isdir, nosync, valid) ==
    LET op == IF isdir THEN "FSYNCDIR" ELSE "FSYNC"
    IN  IF ~fuse_implemented(K, op)
        THEN Direct(K, IF ~nosync THEN 0 ELSE ENOSYS, "none")
        ELSE IF ~valid THEN Direct(K, 0, "none")
        ELSE fdisp_simple_putget_vp(K, op)

\* fuse_internal_fsync_fh from the return of fdisp_wait_answ on, and the end
\* of fuse_internal_fsync_vp
fuse_internal_fsync_fh_answ(K, t, nosync) ==
    LET err == TicketError(K, t)
        op  == K.tk[t].opcode
        K1  == [K EXCEPT !.tk[t].waiter = "none"]
        K2  == IF err = ENOSYS THEN fuse_clear_implemented(K1, op) ELSE K1
    IN  [K |-> K2, ret |-> IF err = ENOSYS /\ ~nosync THEN 0 ELSE err,
         times |-> "none"]

\* fuse_internal_loadxtimes up to the dispatch. valid: the vnode has
\* C_XTIMES_VALID; isvroot: the vnode is the root. times: what the caller
\* gets, nothing, the cached times, zero times or the server's times
fuse_internal_loadxtimes(K, valid, isvroot) ==
    IF ~K.data.xtimes THEN Direct(K, 0, "none")
    ELSE IF valid THEN Direct(K, 0, "cached")
    ELSE IF ~fuse_implemented(K, "GETXTIMES") THEN Direct(K, 0, "zero")
    ELSE IF fdata_dead_get(K) /\ isvroot THEN Direct(K, 0, "zero")
    ELSE IF ~K.data.inited /\ isvroot THEN Direct(K, 0, "zero")
    ELSE LET d == fdisp_simple_putget_vp(K, "GETXTIMES")
         IN  IF d.ret # 0 THEN [d EXCEPT !.ret = 0, !.times = "zero"] ELSE d

\* fuse_internal_loadxtimes from the return of the dispatch on
fuse_internal_loadxtimes_answ(K, t) ==
    LET err == TicketError(K, t)
        K1  == [K EXCEPT !.tk[t].waiter = "none"]
    IN  [K |-> K1, ret |-> 0, times |-> IF err # 0 THEN "zero" ELSE "server"]

\* the version numbers an INIT reply carries, counted from the minimum the
\* kernel supports (OSXFUSE_MIN_USER_VERSION_MAJOR, _MINOR): 0 is the
\* minimum. lenok: the reply has the size of struct fuse_init_out; xtimes:
\* FUSE_XTIMES is among its flags
InitReplies ==
    [major : {-1, 0, 1}, minor : {-1, 0, 1}, lenok : BOOLEAN, xtimes : BOOLEAN]

\* the error fuse_internal_init_synchronous finds in the reply
InitError(K, t, fiio) ==
    IF K.tk[t].ohead_error # 0 THEN K.tk[t].ohead_error
    ELSE IF fiio.major < 0 \/ fiio.minor < 0 THEN EPROTONOSUPPORT
    ELSE IF ~fiio.lenok THEN EINVAL
    ELSE 0

\* fuse_internal_init_synchronous: the reply is examined, the session is
\* marked dead on an error and FSESS_INITED is set
fuse_internal_init_synchronous(K, t, fiio) ==
    LET err == InitError(K, t, fiio)
        K1  == [K EXCEPT !.tk[t].waiter = "none"]
        K3  == IF ~(K.tk[t].ohead_error # 0) /\ err # EPROTONOSUPPORT /\ fiio.xtimes
               THEN [K1 EXCEPT !.data.xtimes = TRUE] ELSE K1
        K4  == IF err # 0 THEN fdata_set_dead(K3) ELSE K3
    IN  [K |-> [K4 EXCEPT !.data.inited = TRUE], ret |-> 0]

\* fuse_internal_send_init up to fdisp_wait_answ
fuse_internal_send_init(K) == fdisp_simple_putget_vp(K, "INIT")

\* fuse_internal_send_init from the return of fdisp_wait_answ on
fuse_internal_send_init_answ(K, t, fiio) ==
    LET err == TicketError(K, t)
    IN  IF err # 0
        THEN [K |-> [K EXCEPT !.tk[t].waiter = "none"], ret |-> err]
        ELSE LET i == fuse_internal_init_synchronous(K, t, fiio)
             IN  [K |-> i.K, ret |-> i.ret]

\* a caller on the mounted file system
Mounted == fdev.data /\ data.mount_state = "FM_MOUNTED"

\* the mount has sent INIT: the file system takes calls
InitSent == Mounted /\ data.ticketer > 1

\* the call r of opcode op takes effect; the file system has one caller at a
\* time
Called(op, r) ==
    /\ \A t \in Tickets : tk[t].waiter = "none"
    /\ ~Blocked(r)
    /\ Commit(r.K)
    /\ IF r.slept THEN Result("wait", 0, data.ticketer)
       ELSE Result(op, r.ret, 0)
    /\ UNCHANGED <<fdev, rd, openers, drv, lib, vn, thr>>

\* the caller woken on ticket t returns with r
Answered(t, r) ==
    /\ Commit(r.K)
    /\ Result(tk[t].opcode, r.ret, tk[t].tk_unique)
    /\ UNCHANGED <<fdev, rd, openers, drv, lib, vn, thr>>

Woken(t, ops) ==
    tk[t].live /\ tk[t].waiter = "woken" /\ tk[t].opcode \in ops

\* the mount sends INIT, once
SendInit ==
    /\ Mounted
    /\ ~data.inited
    /\ \A t \in Tickets : tk[t].opcode # "INIT"
    /\ data.ticketer = 1
    /\ Called("INIT", fuse_internal_send_init(Kernel))

InitAnswered(t, fiio) ==
    /\ Woken(t, {"INIT"})
    /\ Answered(t, fuse_internal_send_init_answ(Kernel, t, fiio))

Access(defer, denied) ==
    /\ InitSent
    /\ Called("ACCESS", fuse_internal_access(Kernel, defer, denied))

AccessAnswered(t) ==
    /\ Woken(t, {"ACCESS"})
    /\ Answered(t, fuse_internal_access_answ(Kernel, t))

Fsync(isdir, nosync, valid) ==
    /\ InitSent
    /\ Called(IF isdir THEN "FSYNCDIR" ELSE "FSYNC",
              fuse_internal_fsync_vp(Kernel, isdir, nosync, valid))

FsyncAnswered(t, nosync) ==
    /\ Woken(t, {"FSYNC", "FSYNCDIR"})
    /\ Answered(t, fuse_internal_fsync_fh_answ(Kernel, t, nosync))

Loadxtimes(valid, isvroot) ==
    /\ InitSent
    /\ Called("GETXTIMES", fuse_internal_loadxtimes(Kernel, valid, isvroot))

LoadxtimesAnswered(t) ==
    /\ Woken(t, {"GETXTIMES"})
    /\ Answered(t, fuse_internal_loadxtimes_answ(Kernel, t))

\* what the server of this specification writes and asks
OpWireErrors == {0, 0 - ENOSYS}
OpIoctlCmds == {"FUSEDEVIOCSETIMPLEMENTEDBITS", "FUSEDEVIOCGETHANDSHAKECOMPLETE"}
OpIoctlBits == {{}, {"GETXTIMES"}}

OpNext ==
    \/ Open(1)
    \/ Close(1)
    \/ Mount
    \/ Unmount
    \/ SendInit
    \/ \E t \in Tickets, fiio \in InitReplies : InitAnswered(t, fiio)
    \/ \E denied \in BOOLEAN : Access(FALSE, denied)
    \/ \E t \in Tickets : AccessAnswered(t)
    \/ \E isdir \in BOOLEAN : Fsync(isdir, FALSE, TRUE)
    \/ \E t \in Tickets : FsyncAnswered(t, FALSE)
    \/ \E isvroot \in BOOLEAN : Loadxtimes(FALSE, isvroot)
    \/ \E t \in Tickets : LoadxtimesAnswered(t)
    \/ Read(TRUE)
    \/ \E u \in 1..MaxOpUnique, e \in OpWireErrors :
          WriteAs(u, e, <<OutHeaderSize, OutHeaderSize>>)
    \/ \E cmd \in OpIoctlCmds, udata \in OpIoctlBits : Ioctl(cmd, udata)

OpSpec == Init /\ [][OpNext]_vars

(* ------------------------------------------------------------------ *)
(* fuse_devices_start / fuse_devices_stop                              *)
(* ------------------------------------------------------------------ *)

\* the slots of the device table
Slots == {1, 2}

\* slot i of fuse_device_table: the first is the device of this model, the
\* second is only opened and closed
TableSlot(D, F, i) == IF i = 1 THEN F ELSE D.slot2

\* fuse_devices_stop as it would be if it looked at the use counts only
fuse_devices_stop_NoLinger(D, F) ==
    IF D.fuse_cdev_major = -1
    THEN [drv |-> [D EXCEPT !.fuse_interface_available = FALSE], fdev |-> F,
          ret |-> KERN_SUCCESS]
    ELSE IF \E i \in Slots : TableSlot(D, F, i).usecount # 0
    THEN [drv |-> [D EXCEPT !.fuse_interface_available = TRUE], fdev |-> F,
          ret |-> KERN_FAILURE]
    ELSE [drv |-> [D EXCEPT !.fuse_interface_available = FALSE,
                            !.fuse_cdev_major = -1,
                            !.cdev = [i \in Slots |-> FALSE],
                            !.mtx = [i \in Slots |-> FALSE],
                            !.slot2.pid = -1,
                            !.slot2.random = 0],
          fdev |-> [F EXCEPT !.pid = -1, !.random = 0],
          ret |-> KERN_SUCCESS]

\* fuse_devices_stop: the interface is closed to opens; if a slot is in use
\* or has a session the interface is made available again and nothing is
\* removed, else every slot's device node and mutex are removed and the
\* character device is unregistered
fuse_devices_stop(D, F) ==
    IF D.fuse_cdev_major = -1
    THEN [drv |-> [D EXCEPT !.fuse_interface_available = FALSE], fdev |-> F,
          ret |-> KERN_SUCCESS]
    ELSE IF \E i \in Slots : \/ TableSlot(D, F, i).usecount # 0
                             \/ TableSlot(D, F, i).data
    THEN [drv |-> [D EXCEPT !.fuse_interface_available = TRUE], fdev |-> F,
          ret |-> KERN_FAILURE]
    ELSE [drv |-> [D EXCEPT !.fuse_interface_available = FALSE,
                            !.fuse_cdev_major = -1,
                            !.cdev = [i \in Slots |-> FALSE],
                            !.mtx = [i \in Slots |-> FALSE],
                            !.slot2.pid = -1,
                            !.slot2.random = 0],
          fdev |-> [F EXCEPT !.pid = -1, !.random = 0],
          ret |-> KERN_SUCCESS]

\* fuse_devices_start. ok: cdevsw_add and devfs_make_node succeed; when
\* cdevsw_add fails the table is left zeroed
fuse_devices_start(D, ok) ==
    IF ok
    THEN [drv |-> DriverStarted, fdev |-> NoDevice, ret |-> KERN_SUCCESS]
    ELSE [drv |-> [D EXCEPT !.fuse_cdev_major = -1,
                            !.cdev = [i \in Slots |-> FALSE],
                            !.mtx = [i \in Slots |-> FALSE],
                            !.slot2 = [usecount |-> 0, pid |-> 0,
                                       random |-> 0, data |-> FALSE]],
          fdev |-> [usecount |-> 0, pid |-> 0, random |-> 0, data |-> FALSE],
          ret |-> KERN_FAILURE]

\* the kernel extension is asked to unload
Stop ==
    /\ LET s == fuse_devices_stop(drv, fdev)
       IN  /\ drv' = s.drv
           /\ fdev' = s.fdev
           /\ Result("stop", s.ret, 0)
    /\ UNCHANGED <<data, tk, ms_head, aw_head, rd, openers, lib, vn, thr>>

\* the kernel extension is loaded again after it was stopped
Start(ok) ==
    /\ drv.fuse_cdev_major = -1
    /\ LET s == fuse_devices_start(drv, ok)
       IN  /\ drv' = s.drv
           /\ fdev' = s.fdev
           /\ Result("start", s.ret, 0)
    /\ UNCHANGED <<data, tk, ms_head, aw_head, rd, openers, lib, vn, thr>>

\* fuse_device_open and fuse_device_close on the second slot, whose session
\* is never mounted
Open2(p, r) ==
    /\ drv' = IF ~drv.fuse_interface_available \/ drv.slot2.usecount # 0
              THEN drv
              ELSE [drv EXCEPT !.slot2 = [usecount |-> 1, pid |-> p,
                                          random |-> r, data |-> TRUE]]
    /\ Result("open2",
              IF ~drv.fuse_interface_available THEN ENOENT
              ELSE IF drv.slot2.usecount # 0 THEN EBUSY ELSE 0,
              0)
    /\ UNCHANGED <<fdev, data, tk, ms_head, aw_head, rd, openers, lib, vn, thr>>

Close2 ==
    /\ drv.slot2.usecount # 0
    /\ drv' = [drv EXCEPT !.slot2 = NoDevice]
    /\ Result("close2", 0, 0)
    /\ UNCHANGED <<fdev, data, tk, ms_head, aw_head, rd, openers, lib, vn, thr>>

DevNext ==
    \/ \E p \in Procs : Open(p)
    \/ \E p \in Procs : Close(p)
    \/ Mount
    \/ Unmount
    \/ \E a \in BOOLEAN : Kill(a)
    \/ \E p \in Procs, r \in Nonces : Open2(p, r)
    \/ Close2
    \/ Stop
    \/ \E ok \in BOOLEAN : Start(ok)

DevSpec == Init /\ [][DevNext]_vars

(* ------------------------------------------------------------------ *)
(* fuse.c: the inode table of the user-space library                   *)
(* ------------------------------------------------------------------ *)

\* node ids the table can hand out, lookups and opens a node can hold, and
\* the values f->hidectr takes
MaxNodeId == 3
MaxLookup == 2
MaxOpen == 2
MaxHide == 2

FUSE_ROOT_ID == 1
FUSE_MAX_PATH == 4096
\* f->ctr is a counter of CtrBits bits, 32 in the source: next_id masks it
\* with 0xffffffff, and FUSE_UNKNOWN_INO is the value with every bit set
CtrBits == 3
FUSE_UNKNOWN_INO == 2 ^ CtrBits - 1
\* failctr of hidden_name
FailCtr == 10

NodeIds == 1..MaxNodeId

\* a name is <<text, node id, counter>>: an ordinary name has only a text;
\* ".fuse_hidden%08x%08x" is the text ".fuse_hidden" with the two numbers
\* printed after it
Name(s) == <<s, 0, 0>>
HiddenNameOf(nodeid, ctr) == <<".fuse_hidden", nodeid, ctr>>
\* name == NULL
NoName == Name("")
FileNames == {Name("a"), Name("b")}

\* strlen: "a" is a name of one byte, "b" stands for a name of 4066 bytes,
\* with which the path of a hidden name in "/b" is one byte too long for
\* FUSE_MAX_PATH, and a hidden name is ".fuse_hidden" and sixteen hexadecimal
\* digits
strlen(name) ==
    IF name[1] = ".fuse_hidden" THEN 28
    ELSE IF name = Name("b") THEN 4066
    ELSE 1

\* a path is the sequence of its names from the root down: "/" is <<>> and
\* "/a/b" is <<Name("a"), Name("b")>>; NoPath is the NULL path
NoPath == <<NoName>>

\* no node has this id
NoNode == [used |-> FALSE, name |-> NoName, parent |-> 0, nlookup |-> 0,
           open_count |-> 0, is_hidden |-> FALSE, refctr |-> 0,
           generation |-> 0, size |-> 0, mtime |-> 0, cache_valid |-> FALSE]

\* fuse_new_common: the table holds the root, which is never forgotten.
\* fs: the names that exist in the file system's one directory; issued: the
\* operations the request being served asked of the file system
fuse_new(hard_remove, fs) ==
    [started |-> TRUE,
     hard_remove |-> hard_remove,
     nodes |-> [i \in NodeIds |->
                   IF i = FUSE_ROOT_ID
                   THEN [NoNode EXCEPT !.used = TRUE, !.name = Name("/"),
                                       !.nlookup = 1, !.refctr = 1]
                   ELSE NoNode],
     ctr |-> 0,
     generation |-> 0,
     hidectr |-> 0,
     fs |-> fs,
     issued |-> <<>>]

\* lookup_node: the node hashed under (parent, name), 0 for NULL
lookup_node(L, parent, name) ==
    IF \E i \in NodeIds : /\ L.nodes[i].used
                          /\ L.nodes[i].parent = parent
                          /\ L.nodes[i].name = name
    THEN CHOOSE i \in NodeIds : /\ L.nodes[i].used
                                /\ L.nodes[i].parent = parent
                                /\ L.nodes[i].name = name
    ELSE 0

\* unref_node, with delete_node when the last reference goes
unref_node(L, i) ==
    IF L.nodes[i].refctr - 1 = 0
    THEN [L EXCEPT !.nodes[i] = NoNode]
    ELSE [L EXCEPT !.nodes[i].refctr = @ - 1]

\* unhash_name: the node loses its name and its reference to the parent
unhash_name(L, i) ==
    IF L.nodes[i].name # NoName
    THEN unref_node([L EXCEPT !.nodes[i].name = NoName,
                              !.nodes[i].parent = 0],
                    L.nodes[i].parent)
    ELSE L

\* hash_name as it would be if the node did not count as a reference to its
\* parent
hash_name_NoRef(L, i, parent, name) ==
    [L EXCEPT !.nodes[i].parent = parent,
              !.nodes[i].name = name]

\* hash_name: the node is entered under (parent, name) and refers to the
\* parent
hash_name(L, i, parent, name) ==
    [L EXCEPT !.nodes[parent].refctr = @ + 1,
              !.nodes[i].parent = parent,
              !.nodes[i].name = name]

\* next_id as it would be if a wrap of the counter left f->generation alone
RECURSIVE next_id_NoGeneration(_, _, _)
next_id_NoGeneration(L, c, g) ==
    LET c1 == (c + 1) % (2 ^ CtrBits)
    IN  IF \/ c1 = 0
           \/ c1 = FUSE_UNKNOWN_INO
           \/ c1 \in DOMAIN L.nodes /\ L.nodes[c1].used
        THEN next_id_NoGeneration(L, c1, g)
        ELSE [ctr |-> c1, generation |-> g]

\* next_id: f->ctr is advanced, with f->generation one more each time it
\* becomes zero, until it is neither zero nor FUSE_UNKNOWN_INO nor the id of
\* a node of the table; c and g are f->ctr and f->generation
RECURSIVE next_id(_, _, _)
next_id(L, c, g) ==
    LET c1 == (c + 1) % (2 ^ CtrBits)
        g1 == IF c1 = 0 THEN g + 1 ELSE g
    IN  IF \/ c1 = 0
           \/ c1 = FUSE_UNKNOWN_INO
           \/ c1 \in DOMAIN L.nodes /\ L.nodes[c1].used
        THEN next_id(L, c1, g1)
        ELSE [ctr |-> c1, generation |-> g1]

\* find_node as it would be if it counted the lookup of a new node only
find_node_NoCount(L, parent, name) ==
    LET node == lookup_node(L, parent, name)
    IN  IF node # 0 THEN L
        ELSE LET n  == next_id(L, L.ctr, L.generation)
                 id == n.ctr
                 L1 == [L EXCEPT !.ctr = id,
                                 !.generation = n.generation,
                                 !.nodes[id] = [NoNode EXCEPT
                                                   !.used = TRUE,
                                                   !.refctr = 1,
                                                   !.generation =
                                                       n.generation]]
                 L2 == hash_name(L1, id, parent, name)
             IN  [L2 EXCEPT !.nodes[id].nlookup = @ + 1]

\* find_node: the node under (parent, name), made if there is none, with one
\* more lookup
find_node(L, parent, name) ==
    LET node == lookup_node(L, parent, name)
    IN  IF node # 0
        THEN [L EXCEPT !.nodes[node].nlookup = @ + 1]
        ELSE LET n  == next_id(L, L.ctr, L.generation)
                 id == n.ctr
                 L1 == [L EXCEPT !.ctr = id,
                                 !.generation = n.generation,
                                 !.nodes[id] = [NoNode EXCEPT
                                                   !.used = TRUE,
                                                   !.refctr = 1,
                                                   !.generation =
                                                       n.generation]]
                 L2 == hash_name(L1, id, parent, name)
             IN  [L2 EXCEPT !.nodes[id].nlookup = @ + 1]

\* a position in buf is its distance from the start of buf; NoPos is the
\* NULL position
NoPos == 0 - FUSE_MAX_PATH

\* add_name as it would be without the test of the buffer's start
add_name_NoLimit(s, name) == s - strlen(name) - 1

\* add_name: the name and a '/' are put in front of position s of the
\* buffer; NULL when they do not fit
add_name(s, name) ==
    IF s - strlen(name) <= 0 THEN NoPos ELSE s - strlen(name) - 1

\* the loop of get_path_name: from node up to the root, each name is put in
\* front of the path; a node without a name ends it with NULL
RECURSIVE get_path_loop(_, _, _, _)
get_path_loop(L, node, s, path) ==
    IF node = FUSE_ROOT_ID THEN path
    ELSE IF L.nodes[node].name = NoName THEN NoPath
    ELSE LET s1 == add_name(s, L.nodes[node].name)
         IN  IF s1 = NoPos THEN NoPath
             ELSE get_path_loop(L, L.nodes[node].parent, s1,
                                <<L.nodes[node].name>> \o path)

\* get_path_name: the path of name in directory nodeid, or of the node
\* itself when name is NULL
get_path_name(L, nodeid, name) ==
    LET s0 == FUSE_MAX_PATH - 1
        s  == IF name # NoName THEN add_name(s0, name) ELSE s0
    IN  IF s = NoPos THEN NoPath
        ELSE get_path_loop(L, nodeid, s,
                           IF name # NoName THEN <<name>> ELSE <<>>)

get_path(L, nodeid) == get_path_name(L, nodeid, NoName)

\* forget_node as it would be if a forgotten node kept its name
forget_node_KeepName(L, nodeid, nlookup) ==
    IF nodeid = FUSE_ROOT_ID THEN L
    ELSE LET L1 == [L EXCEPT !.nodes[nodeid].nlookup = @ - nlookup]
         IN  IF L1.nodes[nodeid].nlookup = 0 /\ L1.nodes[nodeid].refctr > 1
             THEN unref_node(L1, nodeid)
             ELSE L1

\* forget_node as it would be if it only counted
forget_node_NoUnhash(L, nodeid, nlookup) ==
    IF nodeid = FUSE_ROOT_ID THEN L
    ELSE [L EXCEPT !.nodes[nodeid].nlookup = @ - nlookup]

\* forget_node
forget_node(L, nodeid, nlookup) ==
    IF nodeid = FUSE_ROOT_ID THEN L
    ELSE LET L1 == [L EXCEPT !.nodes[nodeid].nlookup = @ - nlookup]
         IN  IF L1.nodes[nodeid].nlookup = 0
             THEN unref_node(unhash_name(L1, nodeid), nodeid)
             ELSE L1

\* remove_node
remove_node(L, dir, name) ==
    LET node == lookup_node(L, dir, name)
    IN  IF node # 0 THEN unhash_name(L, node) ELSE L

\* rename_node as it would be if the node under the new key stayed hashed
rename_node_KeepTarget(L, olddir, oldname, newdir, newname, hide) ==
    LET node    == lookup_node(L, olddir, oldname)
        newnode == lookup_node(L, newdir, newname)
    IN  IF node = 0 THEN [L |-> L, err |-> 0]
        ELSE IF newnode # 0 /\ hide THEN [L |-> L, err |-> 0 - EBUSY]
        ELSE LET L2 == hash_name(unhash_name(L, node), node, newdir, newname)
             IN  [L |-> IF hide THEN [L2 EXCEPT !.nodes[node].is_hidden = TRUE]
                        ELSE L2,
                  err |-> 0]

\* rename_node as it would be if hide marked the node under the new key and
\* took its name
rename_node_HideTarget(L, olddir, oldname, newdir, newname, hide) ==
    LET node    == lookup_node(L, olddir, oldname)
        newnode == lookup_node(L, newdir, newname)
    IN  IF node = 0 THEN [L |-> L, err |-> 0]
        ELSE LET L0 == IF newnode # 0 /\ hide
                       THEN [L EXCEPT !.nodes[newnode].is_hidden = TRUE]
                       ELSE L
                 L1 == IF newnode # 0 THEN unhash_name(L0, newnode) ELSE L0
                 L2 == hash_name(unhash_name(L1, node), node, newdir, newname)
             IN  [L |-> L2, err |-> 0]

\* rename_node
rename_node(L, olddir, oldname, newdir, newname, hide) ==
    LET node    == lookup_node(L, olddir, oldname)
        newnode == lookup_node(L, newdir, newname)
    IN  IF node = 0 THEN [L |-> L, err |-> 0]
        ELSE IF newnode # 0 /\ hide THEN [L |-> L, err |-> 0 - EBUSY]
        ELSE LET L1 == IF newnode # 0 THEN unhash_name(L, newnode) ELSE L
                 L2 == hash_name(unhash_name(L1, node), node, newdir, newname)
             IN  [L |-> IF hide THEN [L2 EXCEPT !.nodes[node].is_hidden = TRUE]
                        ELSE L2,
                  err |-> 0]

\* the file system holds the paths of L.fs; path p lies below path d
Below(p, d) == Len(p) > Len(d) /\ SubSeq(p, 1, Len(d)) = d

\* the directory of a path is in the file system
DirIn(fs, path) == Len(path) = 1 \/ SubSeq(path, 1, Len(path) - 1) \in fs

\* the file system's operations: getattr and open find the path or not;
\* unlink and rename are recorded in issued; deny: the file system refuses.
\* A path that has others below it is not unlinked or renamed over, and
\* a rename takes the paths below the old path with it
fuse_fs_getattr(L, path) == IF path \in L.fs THEN 0 ELSE 0 - ENOENT

fuse_fs_open(L, path) == IF path \in L.fs THEN 0 ELSE 0 - ENOENT

fuse_fs_unlink(L, path, deny) ==
    LET err == IF deny THEN 0 - EPERM
               ELSE IF path \notin L.fs THEN 0 - ENOENT
               ELSE IF \E p \in L.fs : Below(p, path) THEN 0 - EPERM
               ELSE 0
    IN  [L |-> [L EXCEPT !.issued = Append(@, <<"unlink", path, NoName>>),
                         !.fs = IF err = 0 THEN @ \ {path} ELSE @],
         err |-> err]

fuse_fs_rename(L, oldpath, newpath, deny) ==
    LET err == IF deny THEN 0 - EPERM
               ELSE IF oldpath \notin L.fs \/ ~DirIn(L.fs, newpath)
                    THEN 0 - ENOENT
               ELSE IF \/ Below(newpath, oldpath)
                       \/ \E p \in L.fs : Below(p, newpath)
                    THEN 0 - EPERM
               ELSE 0
        moved(p) == IF p = oldpath \/ Below(p, oldpath)
                    THEN newpath \o SubSeq(p, Len(oldpath) + 1, Len(p))
                    ELSE p
    IN  [L |-> [L EXCEPT !.issued = Append(@, <<"rename", oldpath, newpath>>),
                         !.fs = IF err = 0 /\ oldpath # newpath
                                THEN {moved(p) : p \in @ \ {newpath}}
                                ELSE @],
         err |-> err]

\* is_open
is_open(L, dir, name) ==
    LET node == lookup_node(L, dir, name)
    IN  node # 0 /\ L.nodes[node].open_count > 0

\* the inner loop of hidden_name: f->hidectr is advanced until no node of
\* the directory has the name made of the node id and the counter
RECURSIVE HiddenCtr(_, _, _, _)
HiddenCtr(L, dir, nodeid, c) ==
    IF lookup_node(L, dir, HiddenNameOf(nodeid, c + 1)) # 0
    THEN HiddenCtr(L, dir, nodeid, c + 1)
    ELSE c + 1

\* hidden_name: a name of the form .fuse_hiddenXXXXXXXXXXXXXXXX that neither
\* a node of the directory nor the file system has; NoName for NULL
RECURSIVE hidden_name(_, _, _, _)
hidden_name(L, dir, oldname, failctr) ==
    LET node == lookup_node(L, dir, oldname)
    IN  IF node = 0 THEN [L |-> L, newname |-> NoName]
        ELSE LET c       == HiddenCtr(L, dir, node, L.hidectr)
                 L1      == [L EXCEPT !.hidectr = c]
                 newname == HiddenNameOf(node, c)
                 newpath == get_path_name(L1, dir, newname)
                 res     == fuse_fs_getattr(L1, newpath)
             IN  IF newpath = NoPath THEN [L |-> L1, newname |-> NoName]
                 ELSE IF res = 0 - ENOENT THEN [L |-> L1, newname |-> newname]
                 ELSE IF res = 0 /\ failctr - 1 # 0
                      THEN hidden_name(L1, dir, oldname, failctr - 1)
                      ELSE [L |-> L1, newname |-> NoName]

\* hide_node
hide_node(L, oldpath, dir, oldname, deny) ==
    LET h == hidden_name(L, dir, oldname, FailCtr)
    IN  IF h.newname = NoName THEN [L |-> h.L, err |-> 0 - EBUSY]
        ELSE LET r == fuse_fs_rename(h.L, oldpath,
                                     get_path_name(h.L, dir, h.newname), deny)
             IN  IF r.err # 0 THEN r
                 ELSE rename_node(r.L, dir, oldname, dir, h.newname, TRUE)

\* fuse_lib_unlink as it would be without the hiding of open files
fuse_lib_unlink_NoHide(L, parent, name, deny) ==
    LET path == get_path_name(L, parent, name)
        u    == fuse_fs_unlink(L, path, deny)
    IN  IF path = NoPath THEN [L |-> L, err |-> 0 - ENOENT]
        ELSE IF u.err = 0
        THEN [L |-> remove_node(u.L, parent, name), err |-> 0]
        ELSE u

\* fuse_lib_unlink
fuse_lib_unlink(L, parent, name, deny) ==
    LET path == get_path_name(L, parent, name)
    IN  IF path = NoPath THEN [L |-> L, err |-> 0 - ENOENT]
        ELSE IF ~L.hard_remove /\ is_open(L, parent, name)
        THEN hide_node(L, path, parent, name, deny)
        ELSE LET u == fuse_fs_unlink(L, path, deny)
             IN  IF u.err = 0
                 THEN [L |-> remove_node(u.L, parent, name), err |-> 0]
                 ELSE u

\* fuse_lib_lookup, lookup_path
fuse_lib_lookup(L, parent, name) ==
    LET path == get_path_name(L, parent, name)
        res  == fuse_fs_getattr(L, path)
    IN  IF path = NoPath THEN [L |-> L, err |-> 0 - ENOENT]
        ELSE IF res = 0 THEN [L |-> find_node(L, parent, name), err |-> 0]
        ELSE [L |-> L, err |-> res]

\* fuse_lib_rename: a target that is open is hidden first
fuse_lib_rename(L, olddir, oldname, newdir, newname, denyhide, deny) ==
    LET oldpath == get_path_name(L, olddir, oldname)
        newpath == get_path_name(L, newdir, newname)
        h == IF ~L.hard_remove /\ is_open(L, newdir, newname)
             THEN hide_node(L, newpath, newdir, newname, denyhide)
             ELSE [L |-> L, err |-> 0]
        r == fuse_fs_rename(h.L, oldpath, newpath, deny)
    IN  IF oldpath = NoPath \/ newpath = NoPath
        THEN [L |-> L, err |-> 0 - ENOENT]
        ELSE IF h.err # 0 THEN h
        ELSE IF r.err # 0 THEN r
        ELSE rename_node(r.L, olddir, oldname, newdir, newname, FALSE)

\* fuse_lib_open
fuse_lib_open(L, ino) ==
    LET path == get_path(L, ino)
        err  == IF path = NoPath THEN 0 - ENOENT ELSE fuse_fs_open(L, path)
    IN  IF err = 0
        THEN [L |-> [L EXCEPT !.nodes[ino].open_count = @ + 1], err |-> 0]
        ELSE [L |-> L, err |-> err]

\* fuse_do_release as it would be if the last release left the node marked
\* hidden
fuse_do_release_KeepHidden(L, ino, deny) ==
    LET path   == get_path(L, ino)
        L1     == [L EXCEPT !.nodes[ino].open_count = @ - 1]
        unlink_hidden == L1.nodes[ino].is_hidden /\ L1.nodes[ino].open_count = 0
    IN  IF unlink_hidden /\ path # NoPath
        THEN [L |-> fuse_fs_unlink(L1, path, deny).L, err |-> 0]
        ELSE [L |-> L1, err |-> 0]

\* fuse_lib_release, fuse_do_release: the last release of a hidden node
\* unlinks the hidden file
fuse_do_release(L, ino, deny) ==
    LET path   == get_path(L, ino)
        L1     == [L EXCEPT !.nodes[ino].open_count = @ - 1]
        unlink_hidden == L1.nodes[ino].is_hidden /\ L1.nodes[ino].open_count = 0
        L2     == IF unlink_hidden THEN [L1 EXCEPT !.nodes[ino].is_hidden = FALSE]
                  ELSE L1
    IN  IF unlink_hidden /\ path # NoPath
        THEN [L |-> fuse_fs_unlink(L2, path, deny).L, err |-> 0]
        ELSE [L |-> L2, err |-> 0]

\* a request is served: what it asked of the file system starts empty
Serving == [lib EXCEPT !.issued = <<>>]

\* the request ends with the library state r.L and the reply r.err
Replied(op, r) ==
    /\ lib' = r.L
    /\ Result(op, r.err, 0)
    /\ UNCHANGED <<fdev, data, tk, ms_head, aw_head, rd, openers, drv, vn, thr>>

\* the kernel knows the node: it holds a lookup of it
Known(ino) == lib.nodes[ino].used /\ lib.nodes[ino].nlookup > 0

\* the kernel looks a name up in a directory it knows
LibLookup(parent, name) ==
    /\ Known(parent)
    /\ LET node == lookup_node(lib, parent, name)
       IN  IF node = 0
           THEN next_id(lib, lib.ctr, lib.generation).ctr \in NodeIds
           ELSE lib.nodes[node].nlookup < MaxLookup
    /\ Replied("lookup", fuse_lib_lookup(Serving, parent, name))

\* node j lies below directory d in the table
RECURSIVE NodeBelow(_, _, _)
NodeBelow(L, j, d) ==
    LET p == L.nodes[j].parent
    IN  p # 0 /\ (p = d \/ NodeBelow(L, p, d))

\* the kernel forgets n lookups of a node it knows, the root too; it forgets
\* neither a file it has open nor a directory above one
LibForget(ino, n) ==
    /\ lib.nodes[ino].used
    /\ n \in 1..lib.nodes[ino].nlookup
    /\ lib.nodes[ino].open_count = 0
    /\ \A j \in NodeIds : lib.nodes[j].open_count > 0 => ~NodeBelow(lib, j, ino)
    /\ Replied("forget", [L |-> forget_node(Serving, ino, n), err |-> 0])

\* the kernel opens a node it knows
LibOpen(ino) ==
    /\ ino # FUSE_ROOT_ID
    /\ lib.nodes[ino].used /\ lib.nodes[ino].nlookup > 0
    /\ lib.nodes[ino].open_count < MaxOpen
    /\ Replied("open", fuse_lib_open(Serving, ino))

\* the kernel releases a file it has open
LibRelease(ino, deny) ==
    /\ lib.nodes[ino].used /\ lib.nodes[ino].open_count > 0
    /\ Replied("release", fuse_do_release(Serving, ino, deny))

\* the kernel unlinks a name in a directory it knows
LibUnlink(parent, name, deny) ==
    /\ Known(parent)
    /\ LET u == fuse_lib_unlink(Serving, parent, name, deny)
       IN  /\ u.L.hidectr <= MaxHide
           /\ Replied("unlink", u)

\* the kernel renames a name it has looked up, to a name in a directory it
\* knows
LibRename(olddir, oldname, newdir, newname, denyhide, deny) ==
    /\ Known(olddir) /\ Known(newdir)
    /\ lookup_node(lib, olddir, oldname) # 0
    /\ LET r == fuse_lib_rename(Serving, olddir, oldname, newdir, newname,
                                denyhide, deny)
       IN  /\ r.L.hidectr <= MaxHide
           /\ Replied("rename", r)

\* another process creates a file in a directory of the file system
FsCreate(path) ==
    /\ path \notin lib.fs
    /\ DirIn(lib.fs, path)
    /\ lib' = [lib EXCEPT !.fs = @ \cup {path}]
    /\ Result("create", 0, 0)
    /\ UNCHANGED <<fdev, data, tk, ms_head, aw_head, rd, openers, drv, vn, thr>>

\* the files another process creates: the ordinary names and one that looks
\* like a hidden name in the root directory, and one file in a directory
CreatedNames == {<<n>> : n \in FileNames \cup {HiddenNameOf(2, 1)}}

\* the file system at the start
InitFs == {<<n>> : n \in FileNames} \cup {<<Name("a"), Name("b")>>}

LibInit ==
    /\ fdev = NoDevice
    /\ data = NoData
    /\ tk = [t \in Tickets |-> FreeTicket]
    /\ ms_head = <<>>
    /\ aw_head = <<>>
    /\ rd = "idle"
    /\ openers = {}
    /\ last = NoLast
    /\ drv = DriverStarted
    /\ vn = NoVnodes
    /\ thr = NoThreads
    /\ \E hard_remove \in BOOLEAN : lib = fuse_new(hard_remove, InitFs)

LibNext ==
    \/ \E name \in FileNames : LibLookup(FUSE_ROOT_ID, name)
    \/ \E ino \in NodeIds, n \in 1..MaxLookup : LibForget(ino, n)
    \/ \E ino \in NodeIds : LibOpen(ino)
    \/ \E ino \in NodeIds, deny \in BOOLEAN : LibRelease(ino, deny)
    \/ \E name \in FileNames, deny \in BOOLEAN :
          LibUnlink(FUSE_ROOT_ID, name, deny)
    \/ \E path \in CreatedNames : FsCreate(path)

LibSpec == LibInit /\ [][LibNext]_vars

\* the requests of a kernel that works in directories below the root as
\* well, on a file system that refuses nothing it can do
TreeNext ==
    \/ \E parent \in NodeIds, name \in FileNames : LibLookup(parent, name)
    \/ \E ino \in NodeIds, n \in 1..MaxLookup : LibForget(ino, n)
    \/ \E ino \in NodeIds : LibOpen(ino)
    \/ \E ino \in NodeIds : LibRelease(ino, FALSE)
    \/ \E parent \in NodeIds, name \in FileNames :
          LibUnlink(parent, name, FALSE)
    \/ \E olddir, newdir \in NodeIds, oldname, newname \in FileNames :
          LibRename(olddir, oldname, newdir, newname, FALSE, FALSE)

TreeSpec == LibInit /\ [][TreeNext]_vars

(* ------------------------------------------------------------------ *)
(* fuse.c: the allocation of node ids                                  *)
(* ------------------------------------------------------------------ *)

\* the wraps of f->ctr that are followed
MaxGeneration == 2

\* the ids a node of the table can have
TableIds == 1..(FUSE_UNKNOWN_INO - 1)

\* find_node, where it makes a node: the node gets the id of next_id and the
\* generation f->generation has then, and is entered in the table by id.
\* last.handed is the history of the (nodeid, generation) pairs given to
\* nodes so far
IdAlloc ==
    /\ \E i \in TableIds : ~lib.nodes[i].used
    /\ LET n == next_id(lib, lib.ctr, lib.generation)
       IN  /\ n.generation <= MaxGeneration
           /\ lib' = [lib EXCEPT !.ctr = n.ctr,
                                 !.generation = n.generation,
                                 !.nodes[n.ctr] =
                                     [NoNode EXCEPT
                                         !.used = TRUE,
                                         !.refctr = 1,
                                         !.generation = n.generation]]
           /\ last' = [op |-> "next_id", ret |-> n.ctr, unique |-> 0,
                       handed |-> last.handed \cup
                                      {<<n.ctr, n.generation>>}]
    /\ UNCHANGED <<fdev, data, tk, ms_head, aw_head, rd, openers, drv, vn, thr>>

\* delete_node: the node leaves the table by id; the root is never deleted
IdDelete(i) ==
    /\ i # FUSE_ROOT_ID
    /\ lib.nodes[i].used
    /\ lib' = [lib EXCEPT !.nodes[i] = NoNode]
    /\ last' = [last EXCEPT !.op = "delete_node", !.ret = i]
    /\ UNCHANGED <<fdev, data, tk, ms_head, aw_head, rd, openers, drv, vn, thr>>

\* fuse_new_common: the counter and the generation are zero and the table
\* holds the root, whose id is FUSE_ROOT_ID and whose generation is zero
IdInit ==
    /\ fdev = NoDevice
    /\ data = NoData
    /\ tk = [t \in Tickets |-> FreeTicket]
    /\ ms_head = <<>>
    /\ aw_head = <<>>
    /\ rd = "idle"
    /\ openers = {}
    /\ drv = DriverStarted
    /\ vn = NoVnodes
    /\ thr = NoThreads
    /\ lib = [ctr |-> 0,
              generation |-> 0,
              nodes |-> [i \in TableIds |->
                            IF i = FUSE_ROOT_ID
                            THEN [NoNode EXCEPT !.used = TRUE,
                                                !.name = Name("/"),
                                                !.nlookup = 1,
                                                !.refctr = 1]
                            ELSE NoNode]]
    /\ last = [op |-> "none", ret |-> 0, unique |-> 0,
               handed |-> {<<FUSE_ROOT_ID, 0>>}]

IdNext ==
    \/ IdAlloc
    \/ \E i \in TableIds : IdDelete(i)

IdSpec == IdInit /\ [][IdNext]_vars

(* ------------------------------------------------------------------ *)
(* fuse_internal.c and fuse.c: EXCHANGE                                *)
(* ------------------------------------------------------------------ *)

\* the sizes and modification times a file is given
Sizes == 0..2
Mtimes == 0..1

\* the vnodes: a directory and two files in it
DirVnode == "dvp"
FileVnodes == {"fvp", "tvp"}
Vnodes == {DirVnode} \cup FileVnodes
NULLVP == "NULLVP"

\* fuse_invalidate_attr: the cached attributes of the vnode are no longer
\* valid
fuse_invalidate_attr(V, vp) ==
    IF vp # NULLVP THEN [V EXCEPT ![vp].attr_valid = FALSE] ELSE V

\* fuse_internal_exchange as it would be if it left the sizes where they are
fuse_internal_exchange_NoSwap(V, fvp, tvp, err) ==
    IF err # 0 THEN V
    ELSE LET fdvp == V[fvp].parentvp
             tdvp == V[tvp].parentvp
             V1 == fuse_invalidate_attr(V, fdvp)
             V2 == IF tdvp # fdvp THEN fuse_invalidate_attr(V1, tdvp) ELSE V1
         IN  fuse_invalidate_attr(fuse_invalidate_attr(V2, fvp), tvp)

\* fuse_internal_exchange: FUSE_EXCHANGE is sent and err is what
\* fdisp_wait_answ returns. On success the attributes of the two parents
\* and of the two vnodes are invalidated and the two sizes are swapped.
fuse_internal_exchange(V, fvp, tvp, err) ==
    IF err # 0 THEN V
    ELSE LET fdvp == V[fvp].parentvp
             tdvp == V[tvp].parentvp
             V1 == fuse_invalidate_attr(V, fdvp)
             V2 == IF tdvp # fdvp THEN fuse_invalidate_attr(V1, tdvp) ELSE V1
             V3 == fuse_invalidate_attr(fuse_invalidate_attr(V2, fvp), tvp)
             tmpfilesize == V3[fvp].filesize
         IN  [V3 EXCEPT ![fvp].filesize = V3[tvp].filesize,
                        ![tvp].filesize = tmpfilesize]

\* exchange_node: when both names have a node, the two nodes swap size and
\* mtime and neither cache is valid; the result is 0 in every case
exchange_node(L, olddir, oldname, newdir, newname) ==
    LET node    == lookup_node(L, olddir, oldname)
        newnode == lookup_node(L, newdir, newname)
    IN  IF node = 0 \/ newnode = 0
        THEN [L |-> L, err |-> 0]
        ELSE [L |-> [L EXCEPT
                        !.nodes[node].size = L.nodes[newnode].size,
                        !.nodes[newnode].size = L.nodes[node].size,
                        !.nodes[node].mtime = L.nodes[newnode].mtime,
                        !.nodes[newnode].mtime = L.nodes[node].mtime,
                        !.nodes[node].cache_valid = FALSE,
                        !.nodes[newnode].cache_valid = FALSE],
              err |-> 0]

\* fuse_fs_exchange: the file system swaps the contents of the two paths,
\* which leaves the names that exist as they are; it refuses when told to
\* and when one of the paths does not exist
fuse_fs_exchange(L, oldpath, newpath, deny) ==
    [L |-> [L EXCEPT !.issued = Append(@, <<"exchange", oldpath, newpath>>)],
     err |-> IF deny THEN 0 - EPERM
             ELSE IF oldpath \notin L.fs \/ newpath \notin L.fs
                  THEN 0 - ENOENT
                  ELSE 0]

\* fuse_lib_exchange
fuse_lib_exchange(L, olddir, oldname, newdir, newname, deny) ==
    LET oldpath == get_path_name(L, olddir, oldname)
        newpath == get_path_name(L, newdir, newname)
        r == fuse_fs_exchange(L, oldpath, newpath, deny)
    IN  IF oldpath = NoPath \/ newpath = NoPath
        THEN [L |-> L, err |-> 0 - ENOENT]
        ELSE IF r.err # 0 THEN r
        ELSE exchange_node(r.L, olddir, oldname, newdir, newname)

\* the kernel exchanges two files; err is the server's answer
Exchange(fvp, tvp, err) ==
    /\ vn' = fuse_internal_exchange(vn, fvp, tvp, err)
    /\ Result("exchange", err, 0)
    /\ UNCHANGED <<fdev, data, tk, ms_head, aw_head, rd, openers, drv, lib,
                   thr>>

\* the library serves FUSE_EXCHANGE
LibExchange(olddir, oldname, newdir, newname, deny) ==
    /\ Known(olddir) /\ Known(newdir)
    /\ Replied("exchange",
               fuse_lib_exchange(Serving, olddir, oldname, newdir, newname,
                                 deny))

\* the two files exist and the kernel holds valid attributes of them, with
\* any sizes; the library has been asked for any of them and has any sizes
\* and times for them, in a cache that is valid or not
ExInit ==
    /\ fdev = NoDevice
    /\ data = NoData
    /\ tk = [t \in Tickets |-> FreeTicket]
    /\ ms_head = <<>>
    /\ aw_head = <<>>
    /\ rd = "idle"
    /\ openers = {}
    /\ last = NoLast
    /\ drv = DriverStarted
    /\ thr = NoThreads
    /\ \E fa \in [FileVnodes -> Sizes] :
          vn = [v \in Vnodes |->
                   IF v = DirVnode
                   THEN [filesize |-> 0, attr_valid |-> TRUE,
                         parentvp |-> NULLVP]
                   ELSE [filesize |-> fa[v], attr_valid |-> TRUE,
                         parentvp |-> DirVnode]]
    /\ \E looked \in SUBSET FileNames,
          st \in [NodeIds \ {FUSE_ROOT_ID} ->
                     [size : Sizes, mtime : Mtimes, cache_valid : BOOLEAN]] :
          LET L0 == fuse_new(FALSE, {<<n>> : n \in FileNames})
              L1 == IF Name("a") \in looked
                    THEN find_node(L0, FUSE_ROOT_ID, Name("a")) ELSE L0
              L2 == IF Name("b") \in looked
                    THEN find_node(L1, FUSE_ROOT_ID, Name("b")) ELSE L1
          IN  lib = [L2 EXCEPT
                        !.nodes = [i \in NodeIds |->
                            IF L2.nodes[i].used /\ i # FUSE_ROOT_ID
                            THEN [L2.nodes[i] EXCEPT
                                     !.size = st[i].size,
                                     !.mtime = st[i].mtime,
                                     !.cache_valid = st[i].cache_valid]
                            ELSE L2.nodes[i]]]

ExNext ==
    \/ \E fvp, tvp \in FileVnodes, err \in {0, 0 - ENOENT} :
          Exchange(fvp, tvp, err)
    \/ \E oldname, newname \in FileNames, deny \in BOOLEAN :
          LibExchange(FUSE_ROOT_ID, oldname, FUSE_ROOT_ID, newname, deny)

ExSpec == ExInit /\ [][ExNext]_vars

(* ------------------------------------------------------------------ *)
(* fuse_device.c: the endpoint operations, line by line, as threads    *)
(* run them side by side                                               *)
(* ------------------------------------------------------------------ *)

Threads == 1..2
\* the sessions fdata_alloc makes
MaxSessions == 2

\* thr.at: the line each thread has reached ("idle": in no operation);
\* thr.ptr: its local variable data, 0 for NULL, else the number of the
\* session; thr.mtx: the thread that holds fdev->mtx, 0 for none;
\* thr.gmtx: the thread that holds fuse_device_mutex, the global mutex of
\* the device table, 0 for none;
\* thr.session: the session fdev->data points to, 0 for NULL;
\* thr.destroyed: the sessions fdata_destroy has freed;
\* thr.made: how many sessions fdata_alloc has made
ThreadsOf(session) ==
    [at |-> [t \in Threads |-> "idle"],
     ptr |-> [t \in Threads |-> 0],
     mtx |-> 0,
     gmtx |-> 0,
     session |-> session,
     destroyed |-> {},
     made |-> session]

\* what an operation can return after it has used a pointer that is NULL or
\* freed, if the machine has not panicked
UndefinedReturns == {0, ENODEV}

\* the machine has not panicked
Running == last.op # "panic"

\* the pointer is NULL or points to a session that has been freed
Dangling(ptr) == ptr = 0 \/ ptr \in thr.destroyed

\* the operation of thread t, which has used its pointer, ends: with ret if
\* the pointer was good, else with a panic or any return
Return(t, op, ret) ==
    IF ~Dangling(thr.ptr[t])
    THEN Result(op, ret, 0)
    ELSE \/ Result("panic", 0, 0)
         \/ \E r \in UndefinedReturns : Result(op, r, 0)

\* fuse_device_read: data = fdev->data (312) with no mutex of the slot held;
\* then the read loop under data->ms_mtx (315-334)
ReadStep(t) ==
    /\ Running
    /\ \/ /\ thr.at[t] = "idle"
          /\ openers # {}
          /\ thr' = [thr EXCEPT !.at[t] = "read_315",
                                !.ptr[t] = thr.session]
          /\ UNCHANGED last
       \/ /\ thr.at[t] = "read_315"
          /\ Return(t, "read", IF data.dead THEN ENODEV ELSE 0)
          /\ thr' = [thr EXCEPT !.at[t] = "idle", !.ptr[t] = 0]
    /\ UNCHANGED <<fdev, data, tk, ms_head, aw_head, rd, openers, drv, lib,
                   vn>>

\* fuse_device_write: data = fdev->data (418) with no mutex of the slot
\* held; then fdata_dead_get(data) and the rest (419-470)
WriteStep(t) ==
    /\ Running
    /\ \/ /\ thr.at[t] = "idle"
          /\ openers # {}
          /\ thr' = [thr EXCEPT !.at[t] = "write_419",
                                !.ptr[t] = thr.session]
          /\ UNCHANGED last
       \/ /\ thr.at[t] = "write_419"
          /\ Return(t, "write", IF data.dead THEN ENOTCONN ELSE 0)
          /\ thr' = [thr EXCEPT !.at[t] = "idle", !.ptr[t] = 0]
    /\ UNCHANGED <<fdev, data, tk, ms_head, aw_head, rd, openers, drv, lib,
                   vn>>

\* fuse_device_select: data = fdev->data (706) with no mutex of the slot
\* held, and a panic when it is NULL (707-709); then data->ms_mtx (713)
SelectStep(t) ==
    /\ Running
    /\ \/ /\ thr.at[t] = "idle"
          /\ openers # {}
          /\ thr' = [thr EXCEPT !.at[t] = "select_713",
                                !.ptr[t] = thr.session]
          /\ UNCHANGED last
       \/ /\ thr.at[t] = "select_713"
          /\ IF thr.ptr[t] = 0
             THEN Result("panic", 0, 0)
             ELSE Return(t, "select", 1)
          /\ thr' = [thr EXCEPT !.at[t] = "idle", !.ptr[t] = 0]
    /\ UNCHANGED <<fdev, data, tk, ms_head, aw_head, rd, openers, drv, lib,
                   vn>>

\* fuse_device_ioctl: FUSE_DEVICE_LOCAL_LOCK (605); then data = fdev->data
\* (607), ENXIO when it is NULL, the command, and the unlock (680)
IoctlStep(t) ==
    /\ Running
    /\ \/ /\ thr.at[t] = "idle"
          /\ openers # {}
          /\ thr.mtx = 0
          /\ thr' = [thr EXCEPT !.at[t] = "ioctl_607", !.mtx = t]
          /\ UNCHANGED last
       \/ /\ thr.at[t] = "ioctl_607"
          /\ Result("ioctl", IF thr.session = 0 THEN ENXIO ELSE 0, 0)
          /\ thr' = [thr EXCEPT !.at[t] = "idle", !.mtx = 0]
    /\ UNCHANGED <<fdev, data, tk, ms_head, aw_head, rd, openers, drv, lib,
                   vn>>

\* fuse_device_close, which the last close of the device's file runs:
\* data = fdev->data (253), then FUSE_DEVICE_LOCAL_LOCK (258), then the
\* session is marked dead and is destroyed if there is no mount (260-275),
\* then usecount-- (277-287)
CloseStep(t) ==
    /\ Running
    /\ \/ /\ thr.at[t] = "idle"
          /\ openers # {}
          /\ thr' = [thr EXCEPT !.at[t] = "close_258",
                                !.ptr[t] = thr.session]
          /\ openers' = {}
          /\ UNCHANGED <<fdev, data, tk, ms_head, aw_head, last>>
       \/ /\ thr.at[t] = "close_258"
          /\ thr.mtx = 0
          /\ thr' = [thr EXCEPT !.at[t] = "close_260", !.mtx = t]
          /\ UNCHANGED <<fdev, data, tk, ms_head, aw_head, openers, last>>
       \/ /\ thr.at[t] = "close_260"
          /\ LET c == fuse_device_close(Kernel)
             IN  /\ Commit(c.K)
                 /\ fdev' = IF c.final
                            THEN [NoDevice EXCEPT
                                     !.usecount = fdev.usecount]
                            ELSE fdev
                 /\ thr' = [thr EXCEPT
                               !.at[t] = "close_277",
                               !.mtx = 0,
                               !.session = IF c.final THEN 0 ELSE @,
                               !.destroyed = IF c.final
                                             THEN @ \cup {thr.ptr[t]}
                                             ELSE @]
          /\ UNCHANGED <<openers, last>>
       \/ /\ thr.at[t] = "close_277"
          /\ thr.gmtx = 0
          /\ fdev' = [fdev EXCEPT !.usecount = @ - 1]
          /\ thr' = [thr EXCEPT !.at[t] = "idle", !.ptr[t] = 0]
          /\ Result("close", 0, 0)
          /\ UNCHANGED <<data, tk, ms_head, aw_head, openers>>
    /\ UNCHANGED <<rd, drv, lib, vn>>

\* fuse_device_open: fuse_interface_available is read with no mutex held
\* (169); FUSE_DEVICE_GLOBAL_LOCK (186), EBUSY when usecount is not 0, else
\* usecount++ (193); FUSE_DEVICE_LOCAL_LOCK (195), which is undefined when
\* fuse_devices_stop has freed the mutex of the slot; the global mutex is
\* released and the session allocated (197-200); then fdev->data is read:
\* when a session lingers FUSE_DEVICE_GLOBAL_LOCK is taken again (209),
\* usecount-- and both mutexes released (211-219), else the new session is
\* bound and the mutex of the slot released (221-228)
OpenStep(t) ==
    /\ Running
    /\ \/ /\ thr.at[t] = "idle"
          /\ openers = {}
          /\ ~drv.fuse_interface_available
          /\ Result("open", ENOENT, 0)
          /\ UNCHANGED <<fdev, data, tk, ms_head, aw_head, openers, thr>>
       \/ /\ thr.at[t] = "idle"
          /\ openers = {}
          /\ drv.fuse_interface_available
          /\ thr.made < MaxSessions
          /\ thr' = [thr EXCEPT !.at[t] = "open_186"]
          /\ UNCHANGED <<fdev, data, tk, ms_head, aw_head, openers, last>>
       \/ /\ thr.at[t] = "open_186"
          /\ thr.gmtx = 0
          /\ IF fdev.usecount # 0
             THEN /\ thr' = [thr EXCEPT !.at[t] = "idle"]
                  /\ Result("open", EBUSY, 0)
                  /\ UNCHANGED fdev
             ELSE /\ fdev' = [fdev EXCEPT !.usecount = @ + 1]
                  /\ thr' = [thr EXCEPT !.at[t] = "open_195", !.gmtx = t]
                  /\ UNCHANGED last
          /\ UNCHANGED <<data, tk, ms_head, aw_head, openers>>
       \/ /\ thr.at[t] = "open_195"
          /\ IF drv.mtx[1]
             THEN /\ thr.mtx = 0
                  /\ thr' = [thr EXCEPT !.at[t] = "open_197", !.mtx = t]
                  /\ UNCHANGED last
             ELSE \/ /\ Result("panic", 0, 0)
                     /\ UNCHANGED thr
                  \/ /\ thr' = [thr EXCEPT !.at[t] = "open_197"]
                     /\ UNCHANGED last
          /\ UNCHANGED <<fdev, data, tk, ms_head, aw_head, openers>>
       \/ /\ thr.at[t] = "open_197"
          /\ thr' = [thr EXCEPT !.at[t] = "open_200", !.gmtx = 0]
          /\ UNCHANGED <<fdev, data, tk, ms_head, aw_head, openers, last>>
       \/ /\ thr.at[t] = "open_200"
          /\ IF thr.session # 0
             THEN /\ thr.gmtx = 0
                  /\ fdev' = [fdev EXCEPT !.usecount = @ - 1]
                  /\ thr' = [thr EXCEPT !.at[t] = "open_213", !.gmtx = t]
                  /\ UNCHANGED <<data, tk, ms_head, aw_head, openers, last>>
             ELSE /\ fdev' = [fdev EXCEPT !.data = TRUE, !.pid = t,
                                          !.random = 7]
                  /\ data' = [NoData EXCEPT !.opened = TRUE]
                  /\ tk' = [u \in Tickets |-> FreeTicket]
                  /\ ms_head' = <<>>
                  /\ aw_head' = <<>>
                  /\ openers' = {t}
                  /\ thr' = [thr EXCEPT !.at[t] = "idle",
                                        !.mtx = IF @ = t THEN 0 ELSE @,
                                        !.session = thr.made + 1,
                                        !.made = @ + 1]
                  /\ Result("open", 0, 0)
       \/ /\ thr.at[t] = "open_213"
          /\ thr' = [thr EXCEPT !.at[t] = "idle",
                                !.mtx = IF @ = t THEN 0 ELSE @,
                                !.gmtx = 0]
          /\ Result("open", EBUSY, 0)
          /\ UNCHANGED <<fdev, data, tk, ms_head, aw_head, openers>>
    /\ UNCHANGED <<rd, drv, lib, vn>>

\* fuse_devices_stop: fuse_interface_available = FALSE with no mutex held
\* (535); then, under the global mutex, the checks of every slot and, when
\* none is in use, the removal of the device nodes and slot mutexes
\* (537-581)
StopStep(t) ==
    /\ Running
    /\ \/ /\ thr.at[t] = "idle"
          /\ drv' = [drv EXCEPT !.fuse_interface_available = FALSE]
          /\ thr' = [thr EXCEPT !.at[t] = "stop_537"]
          /\ UNCHANGED <<fdev, last>>
       \/ /\ thr.at[t] = "stop_537"
          /\ thr.gmtx = 0
          /\ LET s == fuse_devices_stop(drv, fdev)
             IN  /\ drv' = s.drv
                 /\ fdev' = s.fdev
                 /\ Result("stop", s.ret, 0)
          /\ thr' = [thr EXCEPT !.at[t] = "idle"]
    /\ UNCHANGED <<data, tk, ms_head, aw_head, rd, openers, lib, vn>>

\* the file system is mounted on the open device
RaceMount ==
    /\ Running
    /\ openers # {}
    /\ Mount

\* the device has been opened once: the first session is bound to the slot
RaceInit ==
    /\ fdev = [usecount |-> 1, pid |-> 1, random |-> 7, data |-> TRUE]
    /\ data = [NoData EXCEPT !.opened = TRUE]
    /\ tk = [t \in Tickets |-> FreeTicket]
    /\ ms_head = <<>>
    /\ aw_head = <<>>
    /\ rd = "idle"
    /\ openers = {1}
    /\ last = NoLast
    /\ drv = DriverStarted
    /\ lib = NoLib
    /\ vn = NoVnodes
    /\ thr = ThreadsOf(1)

RaceNext ==
    \/ \E t \in Threads : OpenStep(t)
    \/ \E t \in Threads : StopStep(t)
    \/ \E t \in Threads : CloseStep(t)
    \/ \E t \in Threads : ReadStep(t)
    \/ \E t \in Threads : WriteStep(t)
    \/ \E t \in Threads : IoctlStep(t)
    \/ \E t \in Threads : SelectStep(t)
    \/ RaceMount

RaceSpec == RaceInit /\ [][RaceNext]_vars

(* ------------------------------------------------------------------ *)
(* fuse_internal.c: the write loop of fuse_internal_strategy           *)
(* ------------------------------------------------------------------ *)

\* buf_count(bp): the bytes of the buffer that is written out
MaxCount == 3
\* data->iosize
IoSizes == {1, 2}
\* the dispatches that are counted
MaxDispatch == 3

\* vn holds the locals of fuse_internal_strategy: at is the line reached,
\* count is buf_count(bp), resid is buf_resid(bp), chunksize, left, offset
\* and err are the locals of these names; dispatched, the number of WRITE
\* requests sent up to MaxDispatch, is no variable of the code.
\* The write begins (1346-1352): buf_setresid(bp, buf_count(bp)),
\* offset = buf_blkno(bp) * biosize, left = buf_count(bp)
StrategyInit ==
    /\ fdev = [usecount |-> 1, pid |-> 1, random |-> 7, data |-> TRUE]
    /\ data = [NoData EXCEPT !.opened = TRUE, !.mount_state = "FM_MOUNTED"]
    /\ tk = [t \in Tickets |-> FreeTicket]
    /\ ms_head = <<>>
    /\ aw_head = <<>>
    /\ rd = "idle"
    /\ openers = {1}
    /\ last = NoLast
    /\ drv = DriverStarted
    /\ lib = NoLib
    /\ thr = NoThreads
    /\ \E count \in 1..MaxCount, iosize \in IoSizes, blkno \in 0..1 :
           vn = [at |-> "write_1354", count |-> count, iosize |-> iosize,
                 resid |-> count, offset |-> blkno * MaxCount,
                 left |-> count, chunksize |-> 0, err |-> 0,
                 dispatched |-> 0]

\* one step of the loop `while (left)` (1354-1388): at its head the loop
\* ends when left is 0, else a WRITE of chunksize = min(left, data->iosize)
\* bytes at offset is dispatched (1356-1375); fdisp_wait_answ returns err or
\* the server's answer with fwo->size = size: an error ends the loop, so does
\* a size above chunksize with EINVAL, else left, offset and the residue of
\* the buffer move by size (1376-1387)
StrategyStep(err, size) ==
    /\ \/ /\ vn.at = "write_1354"
          /\ err = 0 /\ size = 0
          /\ vn' = IF vn.left = 0
                   THEN [vn EXCEPT !.at = "out"]
                   ELSE [vn EXCEPT !.at = "write_1376",
                                   !.chunksize = Min(vn.left, vn.iosize),
                                   !.dispatched = Min(@ + 1, MaxDispatch)]
          /\ UNCHANGED last
       \/ /\ vn.at = "write_1376"
          /\ vn' = IF err # 0
                   THEN [vn EXCEPT !.at = "out", !.err = err]
                   ELSE IF vn.chunksize - size < 0
                   THEN [vn EXCEPT !.at = "out", !.err = EINVAL]
                   ELSE [vn EXCEPT !.at = "write_1354",
                                   !.left = @ - size,
                                   !.offset = @ + size,
                                   !.resid = @ - size]
          /\ Result("write_answ", err, 0)
    /\ UNCHANGED <<fdev, data, tk, ms_head, aw_head, rd, openers, drv, lib,
                   thr>>

StrategyNext ==
    \E err \in {0, ENOTCONN}, size \in 0..(MaxCount + 1) :
        StrategyStep(err, size)

StrategySpec == StrategyInit /\ [][StrategyNext]_vars

\* every WRITE that is dispatched is answered, and the thread of the loop
\* runs
StrategyFairSpec == StrategySpec /\ WF_vars(StrategyNext)

(* ------------------------------------------------------------------ *)
(* fuse.c: the record locks of a node                                  *)
(* ------------------------------------------------------------------ *)

\* the greatest offset of a file, which is 2^63 - 1 in the code
OFFSET_MAX == 2
Offsets == 0..OFFSET_MAX
LockOwners == {1, 2}
LockTypes == {"F_RDLCK", "F_WRLCK"}
\* the locks a request can ask for: flock_to_lock gives start <= end
LockRequests ==
    {l \in [type : LockTypes \cup {"F_UNLCK"}, start : Offsets,
            end : Offsets, owner : LockOwners] : l.start <= l.end}

\* delete_lock: the lock at position i leaves the list
delete_lock(ls, i) == SubSeq(ls, 1, i - 1) \o SubSeq(ls, i + 1, Len(ls))

\* insert_lock: the lock enters the list at position i
insert_lock(ls, i, lock) ==
    SubSeq(ls, 1, i - 1) \o <<lock>> \o SubSeq(ls, i, Len(ls))

\* locks_insert as it would be if a lock of another type that reaches over
\* both ends of the new one kept only its lower part
RECURSIVE locks_insert_NoSplit(_, _, _)
locks_insert_NoSplit(ls, i, lock) ==
    LET l       == ls[i]
        skip    == locks_insert_NoSplit(ls, i + 1, lock)
        stop    == IF lock.type # "F_UNLCK" THEN insert_lock(ls, i, lock)
                   ELSE ls
        delete  == locks_insert_NoSplit(delete_lock(ls, i), i, lock)
    IN  IF i > Len(ls) THEN stop
        ELSE IF l.owner # lock.owner THEN skip
        ELSE IF lock.type = l.type
        THEN IF l.end < lock.start - 1 THEN skip
             ELSE IF lock.end < l.start - 1 THEN stop
             ELSE IF l.start <= lock.start /\ lock.end <= l.end THEN ls
             ELSE locks_insert_NoSplit(
                      delete_lock(ls, i), i,
                      [lock EXCEPT !.start = Min(l.start, lock.start),
                                   !.end = IF lock.end < l.end THEN l.end
                                           ELSE lock.end])
        ELSE IF l.end < lock.start THEN skip
             ELSE IF lock.end < l.start THEN stop
             ELSE IF lock.start <= l.start /\ l.end <= lock.end THEN delete
             ELSE IF l.end <= lock.end
             THEN locks_insert_NoSplit(
                      [ls EXCEPT ![i].end = lock.start - 1], i + 1, lock)
             ELSE IF lock.start <= l.start
             THEN LET ls1 == [ls EXCEPT ![i].start = lock.end + 1]
                  IN  IF lock.type # "F_UNLCK"
                      THEN insert_lock(ls1, i, lock) ELSE ls1
             ELSE locks_insert_NoSplit(
                      [ls EXCEPT ![i].end = lock.start - 1], i + 1, lock)

\* locks_insert from the head of the loop at position i of node->locks on
\* (3990-4043). The locks of other owners are skipped. A lock of the same
\* type that touches or overlaps the new one is taken into it and deleted,
\* and one that contains it ends the call. A lock of another type is
\* deleted where the new one covers it, cut at the end that overlaps, or
\* split in two. The loop stops before the first lock of the owner that
\* lies behind the new one, where the new lock, unless it is an unlock, is
\* inserted
RECURSIVE locks_insert(_, _, _)
locks_insert(ls, i, lock) ==
    LET l       == ls[i]
        skip    == locks_insert(ls, i + 1, lock)
        stop    == IF lock.type # "F_UNLCK" THEN insert_lock(ls, i, lock)
                   ELSE ls
        delete  == locks_insert(delete_lock(ls, i), i, lock)
    IN  IF i > Len(ls) THEN stop
        ELSE IF l.owner # lock.owner THEN skip
        ELSE IF lock.type = l.type
        THEN IF l.end < lock.start - 1 THEN skip
             ELSE IF lock.end < l.start - 1 THEN stop
             ELSE IF l.start <= lock.start /\ lock.end <= l.end THEN ls
             ELSE locks_insert(
                      delete_lock(ls, i), i,
                      [lock EXCEPT !.start = Min(l.start, lock.start),
                                   !.end = IF lock.end < l.end THEN l.end
                                           ELSE lock.end])
        ELSE IF l.end < lock.start THEN skip
             ELSE IF lock.end < l.start THEN stop
             ELSE IF lock.start <= l.start /\ l.end <= lock.end THEN delete
             ELSE IF l.end <= lock.end
             THEN locks_insert([ls EXCEPT ![i].end = lock.start - 1],
                               i + 1, lock)
             ELSE IF lock.start <= l.start
             THEN LET ls1 == [ls EXCEPT ![i].start = lock.end + 1]
                  IN  IF lock.type # "F_UNLCK"
                      THEN insert_lock(ls1, i, lock) ELSE ls1
             ELSE locks_insert(
                      insert_lock([ls EXCEPT ![i].end = lock.start - 1],
                                  i + 1,
                                  [l EXCEPT !.start = lock.end + 1]),
                      i + 1, lock)

\* fuse_lib_setlk: when the file system grants the lock (err = 0) it is
\* entered in the list of the node; nomem: malloc fails in locks_insert
\* (3978-3988), which then returns -ENOLCK to a caller that ignores it
fuse_lib_setlk(L, lock, err, nomem) ==
    IF err # 0 THEN [L |-> L, err |-> err]
    ELSE IF /\ nomem
            /\ \/ lock.type # "F_UNLCK"
               \/ lock.start # 0
               \/ lock.end # OFFSET_MAX
    THEN [L |-> L, err |-> 0]
    ELSE [L |-> [L EXCEPT !.locks = locks_insert(@, 1, lock)], err |-> 0]

\* a SETLK request on the node
LibSetlk(lock, err, nomem) ==
    /\ lib' = fuse_lib_setlk(lib, lock, err, nomem).L
    /\ Result("setlk", err, 0)
    /\ UNCHANGED <<fdev, data, tk, ms_head, aw_head, rd, openers, drv, vn,
                   thr>>

\* lib.locks is node->locks of the one node that is locked
LockInit ==
    /\ fdev = NoDevice
    /\ data = NoData
    /\ tk = [t \in Tickets |-> FreeTicket]
    /\ ms_head = <<>>
    /\ aw_head = <<>>
    /\ rd = "idle"
    /\ openers = {}
    /\ last = NoLast
    /\ drv = DriverStarted
    /\ vn = NoVnodes
    /\ thr = NoThreads
    /\ lib = [started |-> TRUE, locks |-> <<>>]

LockNext ==
    \E lock \in LockRequests :
        \/ LibSetlk(lock, 0, FALSE)
        \/ LibSetlk(lock, 0, TRUE)
        \/ LibSetlk(lock, 0 - EAGAIN, FALSE)

LockSpec == LockInit /\ [][LockNext]_vars

(* ------------------------------------------------------------------ *)
(* Shape of the state                                                  *)
(* ------------------------------------------------------------------ *)

TypeOK ==
    /\ fdev.usecount \in 0..1
    /\ fdev.pid \in Procs \cup {-1}
    /\ fdev.data \in BOOLEAN
    /\ data.ticketer \in 1..(MaxUnique + 1)
    /\ \A i \in 1..Len(ms_head) : ms_head[i] \in Tickets /\ tk[ms_head[i]].live
    /\ \A i \in 1..Len(aw_head) : aw_head[i] \in Tickets /\ tk[aw_head[i]].live
    /\ \A i, j \in 1..Len(aw_head) : aw_head[i] = aw_head[j] => i = j
    /\ \A i, j \in 1..Len(ms_head) : ms_head[i] = ms_head[j] => i = j
    /\ \A t \in Tickets : tk[t].tk_interrupt # NULL => tk[tk[t].tk_interrupt].live
    /\ rd \in {"idle", "sleeping"}
    /\ ~fdev.data => data = NoData /\ ms_head = <<>> /\ aw_head = <<>>

\* the replies a server can write: <<bytes written, header>>
WriteInputs ==
    {<<shape[1], [len |-> shape[2], error |-> e, unique |-> u]>> :
        shape \in WriteShapes, e \in WireErrors, u \in 0..MaxUnique}

\* a reply that passes the audit of fuse_device_write
WellFormed(in) ==
    /\ in[1] >= OutHeaderSize
    /\ in[2].len = in[1]
    /\ (in[1] > OutHeaderSize => in[2].error = 0)

\* a reply with a full header that violates the protocol: the declared length
\* is not header plus body, or a body comes with a nonzero error
Malformed(in) ==
    /\ in[1] >= OutHeaderSize
    /\ \/ in[2].len # OutHeaderSize + (in[1] - OutHeaderSize)
       \/ (in[1] - OutHeaderSize > 0 /\ in[2].error # 0)

\* the server holds the device open on a live session
ServerOnLive == openers # {} /\ fdev.data /\ ~data.dead

(* ------------------------------------------------------------------ *)
(* Replies and the awaited set                                         *)
(* ------------------------------------------------------------------ *)

\* C1 as stated: no ticket is ever reached by two replies, whatever it is
C1_NeverTwice ==
    \A t \in Tickets : tk[t].reached <= 1

\* C1 (amended): a well-formed reply whose id is that of an awaited ticket is
\* matched to exactly that ticket: the write succeeds, the ticket's handler is
\* run once with the reply and no other ticket is reached; the ticket leaves
\* the awaited set, unless it is an INTERRUPT answered with EAGAIN, which its
\* handler puts back into the awaited set and at the head of the outbound
\* queue. A ticket other than an INTERRUPT is never reached by two replies;
\* a re-queued INTERRUPT can be.
C1_MatchOnce ==
    /\ \A t \in Tickets :
          (tk[t].live /\ tk[t].opcode # "INTERRUPT") => tk[t].reached <= 1
    /\ ServerOnLive =>
          \A in \in WriteInputs :
             LET t == AwFind(Kernel, in[2].unique)
                 w == fuse_device_write(Kernel, in[1], in[2])
             IN  (WellFormed(in) /\ t # NULL /\ AgainAllowed(Kernel, in[2])) =>
                    /\ w.ret = 0
                    /\ w.found = t
                    /\ tk[t].tk_unique = in[2].unique
                    /\ w.K.tk[t].reached = Min(tk[t].reached + 1, 2)
                    /\ \A s \in Tickets \ {t} :
                          w.K.tk[s].reached = tk[s].reached
                    /\ IF tk[t].tk_aw_handler = "interrupt"
                          /\ in[2].error = 0 - EAGAIN
                       THEN InSeq(w.K.aw, t) /\ Head(w.K.ms) = t
                       ELSE ~InSeq(w.K.aw, t)
                    /\ tk[t].tk_aw_handler = "standard" =>
                          /\ w.K.tk[t].answered
                          /\ w.K.tk[t].ohead_error = 0 - in[2].error
                          /\ w.K.tk[t].waiter # "waiting"

\* a reply has just been matched to the ticket of a waiting caller
C1_Matched ==
    /\ last.op = "write" /\ last.ret = 0 /\ last.unique # 0
    /\ \E t \in Tickets :
          /\ tk[t].live /\ tk[t].tk_unique = last.unique
          /\ tk[t].reached = 1 /\ tk[t].answered /\ tk[t].waiter = "woken"
          /\ ~InSeq(aw_head, t)

\* the session as each of the three routes leaves it (a close that destroys
\* the session leaves none)
DeathRoutes ==
    {fuse_device_kill(Kernel, TRUE).K,
     fuse_device_ioctl(Kernel, "FUSEDEVIOCSETDAEMONDEAD", {}).K}
    \cup (IF fuse_device_close(Kernel).final THEN {}
          ELSE {fuse_device_close(Kernel).K})

\* C2 as stated: whichever of device close, fuse_device_kill and the
\* set-daemon-dead ioctl marks the session dead, every awaited ticket is
\* removed from the awaited set, marked answered with ENOTCONN and its waiter
\* woken, so that no ticket is left in the awaited set of the dead session
C2_DeadDrained ==
    (openers # {} /\ fdev.data) =>
        \A K2 \in DeathRoutes :
            /\ K2.data.dead
            /\ K2.aw = <<>>
            /\ \A t \in Tickets :
                  InSeq(aw_head, t) =>
                      /\ K2.tk[t].answered
                      /\ K2.tk[t].tk_aw_errno = ENOTCONN
                      /\ K2.tk[t].waiter # "waiting"

\* the set-daemon-dead ioctl has left a dead session with an awaited ticket
\* whose caller still sleeps
C2_IoctlLeavesWaiter ==
    /\ last.op = "ioctl" /\ last.ret = 0 /\ data.dead
    /\ \E t \in Tickets : InSeq(aw_head, t) /\ tk[t].waiter = "waiting"

(* ------------------------------------------------------------------ *)
(* Exclusive open                                                      *)
(* ------------------------------------------------------------------ *)

\* C3: at most one process holds a device slot open; while the slot is open,
\* or while a dead session that has not been torn down is still attached to
\* it, fuse_device_open returns EBUSY, binds no session and leaves the slot
\* (its session, owner pid and nonce) as it was.
C3_ExclusiveOpen ==
    /\ Cardinality(openers) <= 1
    /\ (openers # {} \/ (fdev.data /\ data.dead)) =>
          \A p \in Procs, r \in Nonces :
             LET o == fuse_device_open(p, r)
             IN  o.ret = EBUSY /\ ~o.bind /\ o.fdev = fdev
    /\ (last.op = "open" /\ last.ret = EBUSY) =>
          (openers # {} \/ (fdev.data /\ data.dead))

\* an open has just been refused because of a lingering dead session
C3_RefusedLingering ==
    /\ last.op = "open" /\ last.ret = EBUSY
    /\ openers = {} /\ fdev.usecount = 0
    /\ fdev.data /\ data.dead /\ fdev.pid # -1

(* ------------------------------------------------------------------ *)
(* Ticket ids                                                          *)
(* ------------------------------------------------------------------ *)

InFlight(t) == InSeq(ms_head, t) \/ InSeq(aw_head, t)

C5_OrphanDropped ==
    ServerOnLive =>
        \A in \in WriteInputs :
            LET w == fuse_device_write(Kernel, in[1], in[2])
            IN  (/\ WellFormed(in)
                 /\ \A t \in Tickets :
                       InSeq(aw_head, t) => tk[t].tk_unique # in[2].unique) =>
                    /\ w.ret = 0
                    /\ w.found = NULL
                    /\ w.K = Kernel

\* an orphan reply has just been written while a caller waits for another
C5_OrphanWritten ==
    /\ last.op = "write" /\ last.ret = 0 /\ last.unique = 0
    /\ ~data.dead
    /\ \E t \in Tickets : InSeq(aw_head, t) /\ tk[t].waiter = "waiting"

(* ------------------------------------------------------------------ *)
(* Malformed replies                                                   *)
(* ------------------------------------------------------------------ *)

\* C6: a reply that violates the protocol (its declared length is not header
\* plus body, or it has a body together with a nonzero error) makes the write
\* return EINVAL; no ticket is matched, removed or woken and nothing else
\* changes, also when the reply's id is that of an awaited ticket.
C6_MalformedRejected ==
    ServerOnLive =>
        \A in \in WriteInputs :
            LET w == fuse_device_write(Kernel, in[1], in[2])
            IN  Malformed(in) =>
                   /\ w.ret = EINVAL
                   /\ w.found = NULL
                   /\ w.K = Kernel

\* a write has just been refused with EINVAL while a ticket is awaited
C6_RefusedWhileAwaited ==
    /\ last.op = "write" /\ last.ret = EINVAL
    /\ \E t \in Tickets :
          /\ InSeq(aw_head, t) /\ ~tk[t].answered /\ tk[t].waiter = "waiting"
          /\ tk[t].reached = 0

\* C7 as stated: a malformed reply kills the session
C7_MalformedKills ==
    ServerOnLive =>
        \A in \in WriteInputs :
            Malformed(in) =>
                fuse_device_write(Kernel, in[1], in[2]).K.data.dead

\* C7 (amended): a malformed reply does not kill the session: the write is
\* refused with EINVAL and the dead flag of a live session stays clear.
C7_MalformedKeepsLive ==
    ServerOnLive =>
        \A in \in WriteInputs :
            Malformed(in) =>
                /\ fuse_device_write(Kernel, in[1], in[2]).ret = EINVAL
                /\ ~fuse_device_write(Kernel, in[1], in[2]).K.data.dead

\* a write has just been refused with EINVAL and the session is still live
C7_RefusedStillLive ==
    /\ last.op = "write" /\ last.ret = EINVAL
    /\ fdev.data /\ ~data.dead /\ data.mount_state = "FM_MOUNTED"

(* ------------------------------------------------------------------ *)
(* The device of a dead session                                        *)
(* ------------------------------------------------------------------ *)

ReadInputs == BOOLEAN \X ReadSizes

DeadOpen == openers # {} /\ fdev.data /\ data.dead

\* C8 as stated: on a dead session every read and every write of the device
\* fails with ENOTCONN
C8_AllNotConn ==
    DeadOpen =>
        /\ \A in \in ReadInputs :
              fuse_device_read(Kernel, in[1], in[2]).ret = ENOTCONN
        /\ \A in \in WriteInputs :
              fuse_device_write(Kernel, in[1], in[2]).ret = ENOTCONN

\* C8 (amended): on a dead session every write of the device fails at once
\* with ENOTCONN and every read fails at once with ENODEV; neither blocks,
\* matches, pops or copies a ticket or changes anything.
C8_DeadDevice ==
    /\ DeadOpen =>
          /\ \A in \in ReadInputs :
                LET r == fuse_device_read(Kernel, in[1], in[2])
                IN  /\ r.ret = ENODEV
                    /\ ~r.sleep /\ ~r.copied
                    /\ r.K = Kernel
          /\ \A in \in WriteInputs :
                LET w == fuse_device_write(Kernel, in[1], in[2])
                IN  /\ w.ret = ENOTCONN
                    /\ w.found = NULL
                    /\ w.K = Kernel
    /\ (last.op \in {"read", "write"} /\ data.dead /\ last.unique = 0) =>
          last.ret = IF last.op = "read" THEN ENODEV ELSE ENOTCONN

\* a read has just failed with ENODEV on a dead session whose outbound queue
\* holds a ticket
C8_DeadRead ==
    /\ last.op = "read" /\ last.ret = ENODEV /\ last.unique = 0
    /\ data.dead /\ ms_head # <<>> /\ rd = "idle"

(* ------------------------------------------------------------------ *)
(* Reading                                                             *)
(* ------------------------------------------------------------------ *)

\* the scheduler runs a reader that has been woken
FairSpec == Spec /\ WF_vars(ReadWake)

\* on a live session with an empty outbound queue a non-blocking read returns
\* EAGAIN and a blocking read sleeps; neither changes anything
ReadOnEmpty ==
    (ServerOnLive /\ ms_head = <<>>) =>
        \A resid \in ReadSizes :
            /\ fuse_device_read(Kernel, TRUE, resid).ret = EAGAIN
            /\ ~fuse_device_read(Kernel, TRUE, resid).sleep
            /\ fuse_device_read(Kernel, TRUE, resid).K = Kernel
            /\ fuse_device_read(Kernel, FALSE, resid).sleep
            /\ fuse_device_read(Kernel, FALSE, resid).K = Kernel

\* what the reader sleeps for
WorkOrDead == ms_head # <<>> \/ data.dead

\* C9 as stated, its safety half: a sleeping reader returns only when a
\* ticket has been queued or the session is dead
C9_ReturnsOnlyOnWork ==
    [][(rd = "sleeping" /\ rd' = "idle") => WorkOrDead]_vars

\* C9 (amended): on a live session with an empty outbound queue a
\* non-blocking read returns EAGAIN and a blocking read suspends the caller;
\* the suspended caller returns only when a ticket has been queued or the
\* session is dead, or when its sleep is interrupted by a signal (the read
\* then fails with EINTR and pops nothing); and once a ticket has been queued
\* or the session is dead, it does return.
C9_BlockingRead ==
    /\ []ReadOnEmpty
    /\ [][(rd = "sleeping" /\ rd' = "idle") =>
             \/ WorkOrDead
             \/ /\ last'.op = "read" /\ last'.ret = EINTR
                /\ UNCHANGED <<data, tk, ms_head, aw_head>>]_vars
    /\ (rd = "sleeping" /\ WorkOrDead) ~> (rd = "idle")

\* the reader sleeps and a ticket has been queued for it
C9_SleeperHasWork ==
    /\ rd = "sleeping" /\ ~data.dead /\ ms_head # <<>>
    /\ last.op = "dispatch"

(* ------------------------------------------------------------------ *)
(* Answered tickets in the outbound queue                              *)
(* ------------------------------------------------------------------ *)

\* C10: a ticket that is already answered when the read pops it from the
\* outbound queue is not copied to the server: it is dropped, its callback is
\* removed (it is in the awaited set no more) and the INTERRUPT sent for it,
\* if any, is marked answered and taken out of the awaited set.
C10_AnsweredDropped ==
    (ServerOnLive /\ ms_head # <<>> /\ tk[Head(ms_head)].answered) =>
        \A in \in ReadInputs :
            LET t == Head(ms_head)
                i == tk[t].tk_interrupt
                r == fuse_device_read(Kernel, in[1], in[2])
            IN  /\ ~r.copied /\ ~r.sleep
                /\ r.ret # 0
                /\ r.K.ms = Tail(ms_head)
                /\ r.K.tk[t].tk_aw_handler = "NULL"
                /\ ~InSeq(r.K.aw, t)
                /\ ~r.K.data.dead
                /\ i # NULL =>
                      /\ r.K.tk[i].answered
                      /\ r.K.tk[i].tk_aw_handler = "NULL"
                      /\ ~InSeq(r.K.aw, i)

\* the read has just dropped an answered request for which an INTERRUPT had
\* been sent
C10_DroppedWithCompanion ==
    /\ last.op = "read" /\ last.ret = EINTR /\ last.unique # 0
    /\ \E t \in Tickets :
          /\ tk[t].live /\ tk[t].tk_unique = last.unique
          /\ tk[t].answered /\ ~InSeq(ms_head, t) /\ ~InSeq(aw_head, t)
          /\ tk[t].tk_interrupt # NULL
          /\ tk[tk[t].tk_interrupt].answered

(* ------------------------------------------------------------------ *)
(* Teardown of the session                                             *)
(* ------------------------------------------------------------------ *)

\* C11: device close destroys the session and resets the slot (session
\* pointer cleared, pid -1, nonce 0) exactly when no mount refers to the
\* session; otherwise it leaves the dead session attached to the slot, so the
\* session of a mounted file system is never destroyed.
C11_TeardownAfterBoth ==
    /\ (openers # {} /\ fdev.data) =>
          LET c == fuse_device_close(Kernel)
          IN  /\ c.final <=> data.mount_state = "FM_NOTMOUNTED"
              /\ c.final => c.K = DestroyedKernel
              /\ ~c.final => /\ c.K.data.dead /\ ~c.K.data.opened
                             /\ c.K.data.mount_state = "FM_MOUNTED"
                             /\ c.K.data.ticketer = data.ticketer
    /\ last.op = "close" =>
          IF fdev.data
          THEN data.dead /\ ~data.opened /\ data.mount_state = "FM_MOUNTED"
               /\ fdev.pid # -1 /\ fdev.random # 0
          ELSE fdev = NoDevice /\ data = NoData
    /\ data.mount_state = "FM_MOUNTED" => fdev.data
    /\ (fdev.data /\ ~data.opened) => data.mount_state = "FM_MOUNTED"

\* the device has just been closed under a mounted file system: the dead
\* session lingers on the slot
C11_ClosedWhileMounted ==
    /\ last.op = "close" /\ openers = {} /\ fdev.usecount = 0
    /\ fdev.data /\ data.dead /\ data.mount_state = "FM_MOUNTED"

(* ------------------------------------------------------------------ *)
(* Interrupts                                                          *)
(* ------------------------------------------------------------------ *)

\* the callers that can be interrupted now
Interruptible(t) ==
    /\ tk[t].live /\ tk[t].waiter = "waiting" /\ ~tk[t].answered
    /\ tk[t].tk_interrupt = NULL
    /\ CanAlloc(Kernel)
    /\ ~data.dead

\* C12: interrupting a waiting caller creates a fresh INTERRUPT ticket whose
\* id differs from that of the interrupted ticket, whose payload holds the
\* interrupted ticket's id, which is marked never to be reused, and which is
\* put at the head of the outbound queue, ahead of every request queued.
C12_InterruptAtHead ==
    \A t \in Tickets :
        Interruptible(t) =>
            LET K2 == fuse_internal_interrupt_send(Kernel, t)
                i  == K2.tk[t].tk_interrupt
            IN  /\ i # NULL /\ i # t
                /\ ~tk[i].live /\ K2.tk[i].live
                /\ K2.tk[i].opcode = "INTERRUPT"
                /\ K2.tk[i].tk_unique # 0
                /\ \A s \in Tickets :
                      tk[s].live => K2.tk[i].tk_unique # tk[s].tk_unique
                /\ K2.tk[i].fii_unique = tk[t].tk_unique
                /\ K2.tk[i].killed
                /\ K2.ms = <<i>> \o ms_head
                /\ K2.aw = Append(aw_head, i)
                /\ K2.tk[t] = [tk[t] EXCEPT !.tk_interrupt = i]

\* an INTERRUPT has just been put ahead of the request it interrupts, which
\* the server has not read yet
C12_AheadOfRequest ==
    /\ last.op = "interrupt" /\ Len(ms_head) = 2
    /\ tk[ms_head[1]].opcode = "INTERRUPT"
    /\ tk[ms_head[2]].opcode = "REQ"
    /\ tk[ms_head[2]].tk_interrupt = ms_head[1]
    /\ tk[ms_head[1]].fii_unique = tk[ms_head[2]].tk_unique

\* the bare reply header with error e for the ticket with id u
Reply(u, e) == [len |-> OutHeaderSize, error |-> e, unique |-> u]

\* C13: an INTERRUPT that is not marked answered and that the server answers
\* with EAGAIN is re-queued, the same ticket, into the awaited set and at the
\* head of the outbound queue, and the next read hands it to the server
\* again. When the request is answered first, its reply reaches the caller
\* and the INTERRUPT is retired: it is marked answered and out of the awaited
\* set, its handler does nothing, a reply to it (EAGAIN included) matches
\* nothing and it is not re-queued, and the read drops it uncopied.
C13_AgainOrVacuous ==
    ServerOnLive =>
        \A i \in Tickets :
            (tk[i].live /\ tk[i].opcode = "INTERRUPT") =>
               /\ (InSeq(aw_head, i) /\ ~InSeq(ms_head, i)) =>
                     LET w == fuse_device_write(Kernel, OutHeaderSize,
                                  Reply(tk[i].tk_unique, 0 - EAGAIN))
                     IN  /\ ~tk[i].answered
                         /\ w.ret = 0 /\ w.found = i
                         /\ InSeq(w.K.aw, i) /\ w.K.ms = <<i>> \o ms_head
                         /\ ~w.K.tk[i].answered
                         /\ w.K.tk[i].tk_unique = tk[i].tk_unique
                         /\ w.K.tk[i].fii_unique = tk[i].fii_unique
                         /\ \A in \in ReadInputs :
                               LET r == fuse_device_read(w.K, in[1], in[2])
                               IN  r.copied /\ r.ret = 0
                                   /\ r.unique = tk[i].tk_unique
               /\ \A t \in Tickets :
                     (InSeq(aw_head, t) /\ tk[t].tk_interrupt = i) =>
                        LET w  == fuse_device_write(Kernel, OutHeaderSize,
                                      Reply(tk[t].tk_unique, 0))
                            w2 == fuse_device_write(w.K, OutHeaderSize,
                                      Reply(tk[i].tk_unique, 0 - EAGAIN))
                        IN  /\ w.found = t /\ w.K.tk[t].answered
                            /\ w.K.tk[t].tk_aw_errno = 0
                            /\ w.K.tk[t].waiter # "waiting"
                            /\ w.K.tk[i].answered /\ ~InSeq(w.K.aw, i)
                            /\ w2.ret = 0 /\ w2.found = NULL /\ w2.K = w.K
               /\ tk[i].answered =>
                     /\ ~InSeq(aw_head, i)
                     /\ LET K1 == [Kernel EXCEPT !.tk[i].ohead_error = EAGAIN]
                        IN  fuse_internal_interrupt_handler(K1, i) = K1
                     /\ (ms_head # <<>> /\ Head(ms_head) = i) =>
                           \A in \in ReadInputs :
                               LET r == fuse_device_read(Kernel, in[1], in[2])
                               IN  ~r.copied /\ ~InSeq(r.K.ms, i)
                                   /\ ~InSeq(r.K.aw, i)

\* the server has just answered an INTERRUPT with EAGAIN and the INTERRUPT
\* is back at the head of the outbound queue and in the awaited set
C13_Requeued ==
    /\ last.op = "write" /\ last.ret = 0 /\ last.unique # 0
    /\ ms_head # <<>>
    /\ tk[Head(ms_head)].opcode = "INTERRUPT"
    /\ tk[Head(ms_head)].tk_unique = last.unique
    /\ tk[Head(ms_head)].reached >= 1
    /\ InSeq(aw_head, Head(ms_head))
    /\ ~tk[Head(ms_head)].answered


(* ------------------------------------------------------------------ *)
(* The not-implemented set                                             *)
(* ------------------------------------------------------------------ *)

\* the opcodes whose callers record "function not implemented"
CachedOps == {"ACCESS", "FSYNC", "FSYNCDIR"}

\* the outcomes of a call for opcode op on kernel K, over the caller's inputs
Calls(K, op) ==
    CASE op = "ACCESS" ->
            {fuse_internal_access(K, defer, FALSE) : defer \in {FALSE}}
      [] op \in {"FSYNC", "FSYNCDIR"} ->
            {fuse_internal_fsync_vp(K, op = "FSYNCDIR", nosync, TRUE) :
                nosync \in BOOLEAN}
      [] op = "GETXTIMES" ->
            {fuse_internal_loadxtimes(K, FALSE, isvroot) : isvroot \in BOOLEAN}

\* the kernel after the caller woken on ticket t has returned
AnswK(K, t) ==
    CASE K.tk[t].opcode = "ACCESS" -> fuse_internal_access_answ(K, t).K
      [] K.tk[t].opcode \in {"FSYNC", "FSYNCDIR"} ->
            fuse_internal_fsync_fh_answ(K, t, FALSE).K
      [] K.tk[t].opcode = "GETXTIMES" -> fuse_internal_loadxtimes_answ(K, t).K

C15_XtimesCached ==
    \A t \in Tickets :
        (Woken(t, {"GETXTIMES"}) /\ TicketError(Kernel, t) = ENOSYS) =>
            LET K1 == fuse_ticket_release(AnswK(Kernel, t))
            IN  \A r \in Calls(K1, "GETXTIMES") :
                    ~r.wire /\ r.times = "zero" /\ r.K = K1

\* the server has answered GETXTIMES with "function not implemented": the
\* caller gets zero times, and the load that follows puts a GETXTIMES ticket
\* on the outbound queue again
C15_AskedAgain ==
    \E t \in Tickets :
        /\ Woken(t, {"GETXTIMES"}) /\ TicketError(Kernel, t) = ENOSYS
        /\ fuse_internal_loadxtimes_answ(Kernel, t).times = "zero"
        /\ LET K1 == fuse_ticket_release(AnswK(Kernel, t))
           IN  /\ "GETXTIMES" \notin K1.data.noimplflags
               /\ \E r \in Calls(K1, "GETXTIMES") :
                     /\ r.slept
                     /\ Len(r.K.ms) = Len(K1.ms) + 1
                     /\ r.K.tk[r.K.ms[Len(r.K.ms)]].opcode = "GETXTIMES"

\* C16: once an opcode's bit is set in the session's not-implemented set it
\* stays set until the session is destroyed, whatever operation is performed:
\* no step of a session takes a bit out of noimplflags.
C16_Sticky ==
    [][(fdev.data /\ fdev'.data) =>
           data.noimplflags \subseteq data'.noimplflags]_vars

\* C16, as the code has it: a step of a session takes a bit out of
\* noimplflags only if it is the FUSEDEVIOCSETIMPLEMENTEDBITS ioctl, which
\* overwrites the set with the word the server passes; every other step keeps
\* the bits that are set.
C16_StickyButForIoctl ==
    /\ [][(fdev.data /\ fdev'.data) =>
              \/ data.noimplflags \subseteq data'.noimplflags
              \/ /\ last'.op = "ioctl" /\ last'.ret = 0
                 /\ data'.noimplflags \in OpIoctlBits]_vars
    /\ [](fdev.data =>
              \A udata \in OpIoctlBits :
                  fuse_device_ioctl(Kernel, "FUSEDEVIOCSETIMPLEMENTEDBITS",
                                    udata).K.data.noimplflags = udata)

\* the server answered ACCESS with "function not implemented" and holds the
\* device open: FUSEDEVIOCSETIMPLEMENTEDBITS with an empty word takes the
\* ACCESS bit out of the set again
C16_IoctlClears ==
    /\ openers # {} /\ fdev.data
    /\ last.op = "ACCESS" /\ last.ret = ENOTSUP /\ last.unique # 0
    /\ "ACCESS" \in data.noimplflags
    /\ LET i == fuse_device_ioctl(Kernel, "FUSEDEVIOCSETIMPLEMENTEDBITS", {})
       IN  i.ret = 0 /\ i.K.data.noimplflags = {}

(* ------------------------------------------------------------------ *)
(* The INIT handshake                                                  *)
(* ------------------------------------------------------------------ *)

\* an INIT reply whose version is below the minimum the kernel supports, in
\* the order of versions: a lower major, or the same major and a lower minor
BelowMinimum(fiio) ==
    fiio.major < 0 \/ (fiio.major = 0 /\ fiio.minor < 0)

\* C17: if the INIT reply carries a version below the minimum the kernel
\* supports, the handshake fails with EPROTONOSUPPORT and the session is
\* marked dead.
C17_TooOldRefused ==
    \A t \in Tickets, fiio \in InitReplies :
        (Woken(t, {"INIT"}) /\ TicketError(Kernel, t) = 0 /\ BelowMinimum(fiio)) =>
            LET i == fuse_internal_send_init_answ(Kernel, t, fiio)
            IN  i.ret = EPROTONOSUPPORT /\ i.K.data.dead

\* the server has answered INIT without an error: with a version below the
\* minimum the session is marked dead and FSESS_INITED is set, and the
\* handshake returns 0
C17_TooOldReturnsZero ==
    \E t \in Tickets :
        /\ Woken(t, {"INIT"}) /\ TicketError(Kernel, t) = 0 /\ ~data.dead
        /\ \A fiio \in InitReplies :
              BelowMinimum(fiio) =>
                  LET i == fuse_internal_send_init_answ(Kernel, t, fiio)
                  IN  /\ InitError(Kernel, t, fiio) = EPROTONOSUPPORT
                      /\ i.ret = 0
                      /\ i.K.data.dead /\ i.K.data.inited

\* what FUSEDEVIOCGETHANDSHAKECOMPLETE gives the server in the current state
Handshake == fuse_device_ioctl(Kernel, "FUSEDEVIOCGETHANDSHAKECOMPLETE", {})

SlotBusy == \E i \in Slots : \/ TableSlot(drv, fdev, i).usecount # 0
                             \/ TableSlot(drv, fdev, i).data

IssuedOps(L, op) == {i \in 1..Len(L.issued) : L.issued[i][1] = op}

\* the names the nodes of directory dir have in L
NamesIn(L, dir) ==
    {L.nodes[i].name : i \in {j \in NodeIds : L.nodes[j].used /\ L.nodes[j].parent = dir}}

\* C20: on UNLINK of a name whose node has open handles, unless hard_remove
\* is set, the library issues no UNLINK: it asks the file system to rename
\* the file to a fresh .fuse_hidden name in the same directory and, when that
\* succeeds, the node takes that name and is marked hidden; when it fails the
\* node keeps its name. With hard_remove, or for a name whose node has no
\* open handle, UNLINK is issued at once, and on success the name is gone
\* from the table.
C20_UnlinkHidesOpenFile ==
    \A parent \in NodeIds, name \in FileNames, deny \in BOOLEAN :
        LET L    == Serving
            node == lookup_node(L, parent, name)
            path == get_path_name(L, parent, name)
            u    == fuse_lib_unlink(L, parent, name, deny)
        IN  (lib.started /\ Known(parent) /\ path # NoPath) =>
            IF ~L.hard_remove /\ node # 0 /\ L.nodes[node].open_count > 0
            THEN /\ IssuedOps(u.L, "unlink") = {}
                 /\ u.L.issued # <<>> =>
                       LET new == u.L.issued[1][3]
                       IN  /\ Len(u.L.issued) = 1
                           /\ u.L.issued[1][1] = "rename"
                           /\ u.L.issued[1][2] = path
                           /\ Len(new) = Len(path)
                           /\ SubSeq(new, 1, Len(new) - 1)
                                 = SubSeq(path, 1, Len(path) - 1)
                           /\ new[Len(new)][1] = ".fuse_hidden"
                           /\ new \notin L.fs
                           /\ new[Len(new)] \notin NamesIn(L, parent)
                 /\ u.err = 0 =>
                       LET new == u.L.issued[1][3]
                       IN  /\ u.L.nodes[node].is_hidden
                           /\ u.L.nodes[node].parent = parent
                           /\ u.L.nodes[node].name = new[Len(new)]
                           /\ u.L.nodes[node].open_count
                                 = L.nodes[node].open_count
                           /\ lookup_node(u.L, parent, name) = 0
                 /\ u.err # 0 => u.L.nodes = L.nodes
            ELSE /\ u.L.issued = <<<<"unlink", path, NoName>>>>
                 /\ u.err = 0 => lookup_node(u.L, parent, name) = 0
                 /\ \A i \in NodeIds : u.L.nodes[i].is_hidden = L.nodes[i].is_hidden

\* an UNLINK of an open file was answered with success: the file was renamed,
\* not unlinked, and its node is hidden under the new name, still open
C20_Hidden ==
    /\ lib.started /\ ~lib.hard_remove
    /\ last.op = "unlink" /\ last.ret = 0
    /\ Len(lib.issued) = 1 /\ lib.issued[1][1] = "rename"
    /\ \E i \in NodeIds :
          /\ lib.nodes[i].used /\ lib.nodes[i].is_hidden
          /\ lib.nodes[i].open_count > 0
          /\ get_path(lib, i) = lib.issued[1][3]
          /\ get_path(lib, i) \in lib.fs
          /\ lib.issued[1][2] \notin lib.fs

\* the nodes that are hidden and open in L
HiddenOpen(L) ==
    {i \in NodeIds : L.nodes[i].used /\ L.nodes[i].is_hidden
                       /\ L.nodes[i].open_count > 0}

\* the UNLINK of the file of node i, as L has it
UnlinkOf(L, i) == <<"unlink", get_path(L, i), NoName>>

\* no UNLINK or RENAME request has the file of a hidden node that is open
\* unlinked
NoUnlinkWhileOpen ==
    \A i \in HiddenOpen(lib), parent \in NodeIds :
        \A name \in (FileNames \cup NamesIn(lib, parent)) \ {NoName} :
            LET Issues(L) == \E k \in 1..Len(L.issued) :
                                L.issued[k] = UnlinkOf(lib, i)
            IN  Known(parent) =>
                /\ \A deny \in BOOLEAN :
                      ~Issues(fuse_lib_unlink(Serving, parent, name, deny).L)
                /\ \A newname \in FileNames :
                      ~Issues(fuse_lib_rename(Serving, parent, name, parent,
                                              newname, FALSE, FALSE).L)

\* C21: no UNLINK of a hidden node's file is issued while the node is open:
\* neither an UNLINK or RENAME request nor a RELEASE that leaves the node open
\* issues one; the RELEASE that brings the open count to zero issues exactly
\* one UNLINK, against the hidden path, which still resolves then.
C21_UnlinkAtLastClose ==
    /\ NoUnlinkWhileOpen
    /\ \A i \in HiddenOpen(lib), deny \in BOOLEAN :
          LET r == fuse_do_release(Serving, i, deny)
          IN  IF lib.nodes[i].open_count > 1
              THEN r.L.issued = <<>> /\ r.L.nodes[i].is_hidden
              ELSE /\ get_path(lib, i) # NoPath
                   /\ r.L.issued = <<UnlinkOf(lib, i)>>

\* the last RELEASE of a hidden file was served and asked no UNLINK of the
\* file system: the hidden file is still there and no node is hidden any more
C21_HiddenFileLeft ==
    /\ lib.started /\ last.op = "release" /\ last.ret = 0
    /\ \A k \in 1..Len(lib.issued) : lib.issued[k][1] # "unlink"
    /\ \E p \in lib.fs : p[Len(p)][1] = ".fuse_hidden"
    /\ \A i \in NodeIds : ~lib.nodes[i].is_hidden /\ lib.nodes[i].open_count = 0

\* C22: lookup(parent, name) returns the node registered under (parent, name)
\* if there is one, and otherwise a new child under that key whose nodeid is
\* that of no node in the table (and not zero); the returned node's lookup
\* count is one higher than before (one for a new node), and no other node
\* changes but for the reference the new child holds on its parent.
C22_LookupFindsOrMakes ==
    \A parent \in NodeIds, name \in FileNames :
        LET old == lookup_node(lib, parent, name)
            L   == find_node(lib, parent, name)
            new == lookup_node(L, parent, name)
        IN  (lib.started /\ lib.nodes[parent].used
               /\ (old = 0 => next_id(lib, lib.ctr, lib.generation).ctr \in NodeIds)) =>
            /\ new # 0 /\ L.nodes[new].used
            /\ L.nodes[new].nlookup = lib.nodes[new].nlookup + 1
            /\ IF old # 0
               THEN /\ new = old
                    /\ \A i \in NodeIds \ {old} : L.nodes[i] = lib.nodes[i]
               ELSE /\ ~lib.nodes[new].used
                    /\ L.nodes[new].nlookup = 1
                    /\ L.nodes[new].open_count = 0 /\ ~L.nodes[new].is_hidden
                    /\ L.nodes[parent].refctr = lib.nodes[parent].refctr + 1
                    /\ \A i \in NodeIds \ {new, parent} :
                          L.nodes[i] = lib.nodes[i]

\* a LOOKUP found a directory that was looked up before and that has a child
\* made by an earlier LOOKUP
C22_LookedUpTwice ==
    /\ lib.started /\ last.op = "lookup" /\ last.ret = 0
    /\ \E i, j \in NodeIds \ {FUSE_ROOT_ID} :
          /\ lib.nodes[i].used /\ lib.nodes[i].nlookup = 2
          /\ lib.nodes[j].used /\ lib.nodes[j].parent = i
          /\ lib.nodes[j].nlookup = 1

\* what forget(ino, n) does to a node that is counted: the lookup count goes
\* down by n; when it reaches zero the node has no name any more, nothing is
\* found under its old key, its path does not resolve, it gives up one
\* reference and so does its parent, and each of the two is out of the by-id
\* table exactly when its reference count reached zero; nothing else changes
ForgetEffect(ino, n) ==
    LET L    == forget_node(lib, ino, n)
        N    == lib.nodes[ino]
        p    == N.parent
        Dropped(i) ==
            /\ L.nodes[i].used <=> lib.nodes[i].refctr - 1 > 0
            /\ L.nodes[i].used =>
                  L.nodes[i] = [lib.nodes[i] EXCEPT
                                   !.refctr = @ - 1,
                                   !.nlookup = IF i = ino THEN 0 ELSE @,
                                   !.name = IF i = ino THEN NoName ELSE @,
                                   !.parent = IF i = ino THEN 0 ELSE @]
            /\ ~L.nodes[i].used => L.nodes[i] = NoNode
    IN  IF N.nlookup - n > 0
        THEN L = [lib EXCEPT !.nodes[ino].nlookup = N.nlookup - n]
        ELSE /\ Dropped(ino)
             /\ L.nodes[ino].used => get_path(L, ino) = NoPath
             /\ N.name # NoName =>
                   /\ lookup_node(L, p, N.name) = 0
                   /\ Dropped(p)
             /\ \A i \in NodeIds \ {ino, p} : L.nodes[i] = lib.nodes[i]
             /\ [L EXCEPT !.nodes = lib.nodes] = lib

\* C23 as stated: forget(nodeid, n) lowers the lookup count of the node by n,
\* whichever node it is, with the effects above when the count reaches zero.
C23_ForgetLowers ==
    \A ino \in NodeIds :
        (lib.started /\ lib.nodes[ino].used) =>
            \A n \in 1..lib.nodes[ino].nlookup : ForgetEffect(ino, n)

\* C23, amended: forget(nodeid, n) on a node other than the root lowers the
\* node's lookup count by n; when the count reaches zero the node is removed
\* from the by-name table, and it is removed from the by-id table and freed
\* exactly when its reference count drops to zero; forget on the root changes
\* nothing.
C23_ForgetLowersButRoot ==
    \A ino \in NodeIds :
        (lib.started /\ lib.nodes[ino].used) =>
            \A n \in 1..lib.nodes[ino].nlookup :
                IF ino = FUSE_ROOT_ID
                THEN forget_node(lib, ino, n) = lib
                ELSE ForgetEffect(ino, n)

\* a FORGET took the last lookup of a directory whose child the kernel still
\* knows: the directory has no name but is kept in the by-id table
C23_ForgottenButKept ==
    /\ lib.started /\ last.op = "forget"
    /\ \E i, j \in NodeIds \ {FUSE_ROOT_ID} :
          /\ lib.nodes[i].used /\ lib.nodes[i].nlookup = 0
          /\ lib.nodes[i].name = NoName /\ lib.nodes[i].refctr = 1
          /\ lib.nodes[j].used /\ lib.nodes[j].parent = i
          /\ lib.nodes[j].nlookup > 0

\* the nodes of the by-name table: those of the by-id table that have a name
Named(L) == {i \in NodeIds \ {FUSE_ROOT_ID} :
                L.nodes[i].used /\ L.nodes[i].name # NoName}

RECURSIVE Rooted(_, _)
Rooted(L, i) ==
    \/ i = FUSE_ROOT_ID
    \/ /\ i \in NodeIds
       /\ L.nodes[i].used /\ L.nodes[i].name # NoName
       /\ Rooted(L, L.nodes[i].parent)

\* the nodes other than the root that the kernel holds a lookup of
LookedUp(L) == {i \in NodeIds \ {FUSE_ROOT_ID} :
                   L.nodes[i].used /\ L.nodes[i].nlookup > 0}

\* C25 as stated: every non-root node with a nonzero lookup count is reachable
\* from the root through its parent/name chain.
C25_LookedUpIsRooted ==
    lib.started => \A i \in LookedUp(lib) : Rooted(lib, i)

\* C25, amended: every non-root node with a registered name has a nonzero
\* lookup count and its parent is in the by-id table, and a node with a
\* nonzero lookup count that is reachable from the root stays reachable until
\* an UNLINK, a RENAME or a FORGET takes its name or the name of a directory
\* above it; it stays in the by-id table, with its lookup count, until a
\* FORGET.
C25_RootedUntilRemoved ==
    /\ [](lib.started =>
            \A i \in Named(lib) :
                /\ lib.nodes[i].nlookup > 0
                /\ lib.nodes[lib.nodes[i].parent].used)
    /\ [][lib.started =>
            \A i \in LookedUp(lib) :
                /\ i \notin LookedUp(lib') => last'.op = "forget"
                /\ (Rooted(lib, i) /\ ~Rooted(lib', i)) =>
                      last'.op \in {"unlink", "rename", "forget"}]_vars

\* an UNLINK took the name of a file the kernel holds a lookup of: the node
\* is in the by-id table with its lookup count, without a name
C25_UnlinkedButLookedUp ==
    /\ lib.started /\ last.op = "unlink" /\ last.ret = 0
    /\ Len(lib.issued) = 1 /\ lib.issued[1][1] = "unlink"
    /\ \E i \in LookedUp(lib) :
          /\ lib.nodes[i].name = NoName
          /\ ~Rooted(lib, i)

\* the names along the parent chain of node i, from the root down
RECURSIVE ChainNames(_, _)
ChainNames(L, i) ==
    IF i = FUSE_ROOT_ID THEN <<>>
    ELSE Append(ChainNames(L, L.nodes[i].parent), L.nodes[i].name)

\* the bytes of the string of a path: a '/' and the name, for each name
RECURSIVE PathBytes(_)
PathBytes(path) ==
    IF path = <<>> THEN 0
    ELSE strlen(Head(path)) + 1 + PathBytes(Tail(path))

\* C26 as stated: get_path(nodeid) returns the names along the parent chain
\* from the root down to the node ("/" for the root), and it returns no path
\* exactly when the node or a node above it has no name.
C26_PathIffRooted ==
    \A i \in NodeIds :
        (lib.started /\ lib.nodes[i].used) =>
            get_path(lib, i) = IF Rooted(lib, i) THEN ChainNames(lib, i)
                               ELSE NoPath

\* C26, amended: get_path(nodeid) returns the names along the parent chain
\* from the root down to the node ("/" for the root), and it returns no path
\* exactly when the node or a node above it has no name or when the path and
\* its terminating byte do not fit in FUSE_MAX_PATH bytes.
C26_PathIffRootedAndFits ==
    \A i \in NodeIds :
        (lib.started /\ lib.nodes[i].used) =>
            get_path(lib, i) =
                IF /\ Rooted(lib, i)
                   /\ PathBytes(ChainNames(lib, i)) + 1 <= FUSE_MAX_PATH
                THEN ChainNames(lib, i)
                ELSE NoPath

\* a directory with a child in it was renamed: the child's path is the
\* directory's new name and the child's name
C26_PathThroughRenamedDir ==
    /\ lib.started /\ last.op = "rename" /\ last.ret = 0
    /\ \E i, j \in NodeIds \ {FUSE_ROOT_ID} :
          /\ i \in Named(lib) /\ j \in Named(lib)
          /\ lib.nodes[j].parent = i
          /\ lib.issued = <<<<"rename", <<Name("b")>>, <<Name("a")>>>>>>
          /\ get_path(lib, j) = <<Name("a"), lib.nodes[j].name>>
          /\ get_path(lib, j) \in lib.fs

\* the names a rename is asked for: the ordinary ones and a hidden one
RenameNames == FileNames \cup {HiddenNameOf(2, 1)}

\* rename_node is applied to a node under (olddir, oldname), in directories
\* the kernel knows
RenameInputs ==
    {x \in [olddir : NodeIds, oldname : RenameNames,
            newdir : NodeIds, newname : RenameNames, hide : BOOLEAN] :
        /\ Known(x.olddir) /\ Known(x.newdir)
        /\ lookup_node(lib, x.olddir, x.oldname) # 0
        /\ ~NodeBelow(lib, x.newdir, lookup_node(lib, x.olddir, x.oldname))
        /\ x.newdir # lookup_node(lib, x.olddir, x.oldname)}

\* the node is moved to the new key: the key finds it, the old key finds
\* nothing, and the node under the new key before, if any, has no name but is
\* otherwise as it was, its reference count apart
Moved(x, L) ==
    LET node    == lookup_node(lib, x.olddir, x.oldname)
        newnode == lookup_node(lib, x.newdir, x.newname)
    IN  /\ lookup_node(L, x.newdir, x.newname) = node
        /\ L.nodes[node].parent = x.newdir /\ L.nodes[node].name = x.newname
        /\ <<x.olddir, x.oldname>> # <<x.newdir, x.newname>> =>
              lookup_node(L, x.olddir, x.oldname) = 0
        /\ L.nodes[node].nlookup = lib.nodes[node].nlookup
        /\ L.nodes[node].open_count = lib.nodes[node].open_count
        /\ newnode \notin {0, node} =>
              [L.nodes[newnode] EXCEPT !.refctr = 0]
                 = [lib.nodes[newnode] EXCEPT !.name = NoName, !.parent = 0,
                                              !.refctr = 0]

\* C27 as stated: rename moves the node to the key (newdir, newname); a node
\* registered under that key is unhashed, and when hide is set that displaced
\* node is marked hidden.
C27_DisplacedIsHidden ==
    lib.started =>
        \A x \in RenameInputs :
            LET r == rename_node(lib, x.olddir, x.oldname, x.newdir,
                                 x.newname, x.hide)
                node    == lookup_node(lib, x.olddir, x.oldname)
                newnode == lookup_node(lib, x.newdir, x.newname)
            IN  newnode # node =>
                /\ r.err = 0
                /\ lookup_node(r.L, x.newdir, x.newname) = node
                /\ newnode # 0 =>
                      /\ r.L.nodes[newnode].name = NoName
                      /\ x.hide => r.L.nodes[newnode].is_hidden

\* C27, amended: rename moves the node to the key (newdir, newname) in one
\* step; without hide a node registered under that key is unhashed and no
\* hidden flag changes; with hide the moved node itself is marked hidden,
\* and if another node is registered under the key nothing is moved and the
\* call fails with EBUSY.
C27_MovedOrBusy ==
    lib.started =>
        \A x \in RenameInputs :
            LET r == rename_node(lib, x.olddir, x.oldname, x.newdir,
                                 x.newname, x.hide)
                node    == lookup_node(lib, x.olddir, x.oldname)
                newnode == lookup_node(lib, x.newdir, x.newname)
            IN  IF x.hide /\ newnode # 0
                THEN r.err = 0 - EBUSY /\ r.L = lib
                ELSE /\ r.err = 0
                     /\ Moved(x, r.L)
                     /\ r.L.nodes[node].is_hidden
                          = (x.hide \/ lib.nodes[node].is_hidden)
                     /\ \A i \in NodeIds \ {node} :
                           r.L.nodes[i].is_hidden = lib.nodes[i].is_hidden

\* a RENAME of a to b was served while the kernel knew both: the node that
\* was a is under b, the node that was b has no name and is not hidden
C27_RenamedOntoKnown ==
    /\ lib.started /\ last.op = "rename" /\ last.ret = 0
    /\ lib.issued = <<<<"rename", <<Name("a")>>, <<Name("b")>>>>>>
    /\ lookup_node(lib, FUSE_ROOT_ID, Name("a")) = 0
    /\ \E i, j \in LookedUp(lib) :
          /\ lookup_node(lib, FUSE_ROOT_ID, Name("b")) = i
          /\ lib.nodes[j].name = NoName
          /\ ~lib.nodes[j].is_hidden /\ ~lib.nodes[i].is_hidden
          /\ lib.nodes[j].open_count = 0

\* C28: an id that next_id hands out is never zero, never FUSE_UNKNOWN_INO
\* and never the id of a node that is in the table; the generation is one
\* more exactly when the counter has passed zero on the way; and the pair
\* of the id and the generation was given to no node before.
C28_FreshIdAndGeneration ==
    (\E i \in TableIds : ~lib.nodes[i].used) =>
        LET n == next_id(lib, lib.ctr, lib.generation)
        IN  /\ n.ctr # 0
            /\ n.ctr # FUSE_UNKNOWN_INO
            /\ n.ctr \in TableIds
            /\ ~lib.nodes[n.ctr].used
            /\ n.generation =
                   IF n.ctr <= lib.ctr THEN lib.generation + 1
                   ELSE lib.generation
            /\ <<n.ctr, n.generation>> \notin last.handed

\* an id is handed out a second time, after the counter has wrapped
C28_IdReusedAfterWrap ==
    /\ last.op = "next_id"
    /\ lib.generation > 0
    /\ <<last.ret, 0>> \in last.handed
    /\ <<last.ret, lib.generation>> \in last.handed
    /\ lib.nodes[last.ret].generation = lib.generation

\* C29: when an EXCHANGE of two existing paths succeeds, each of the two
\* inodes has the size the other had and the cached attributes of neither are
\* valid, in the kernel and in the library; a second successful EXCHANGE of
\* the same two gives each its first size again.
C29_ExchangeSwapsSizes ==
    /\ \A fvp, tvp \in FileVnodes :
           LET V1 == fuse_internal_exchange(vn, fvp, tvp, 0)
               V2 == fuse_internal_exchange(V1, fvp, tvp, 0)
           IN  /\ V1[fvp].filesize = vn[tvp].filesize
               /\ V1[tvp].filesize = vn[fvp].filesize
               /\ ~V1[fvp].attr_valid /\ ~V1[tvp].attr_valid
               /\ V2[fvp].filesize = vn[fvp].filesize
               /\ V2[tvp].filesize = vn[tvp].filesize
    /\ \A oldname, newname \in FileNames :
           LET node    == lookup_node(lib, FUSE_ROOT_ID, oldname)
               newnode == lookup_node(lib, FUSE_ROOT_ID, newname)
               r1 == fuse_lib_exchange(lib, FUSE_ROOT_ID, oldname,
                                       FUSE_ROOT_ID, newname, FALSE)
               r2 == fuse_lib_exchange(r1.L, FUSE_ROOT_ID, oldname,
                                       FUSE_ROOT_ID, newname, FALSE)
           IN  (node # 0 /\ newnode # 0) =>
                   /\ r1.err = 0 /\ r2.err = 0
                   /\ r1.L.nodes[node].size = lib.nodes[newnode].size
                   /\ r1.L.nodes[newnode].size = lib.nodes[node].size
                   /\ ~r1.L.nodes[node].cache_valid
                   /\ ~r1.L.nodes[newnode].cache_valid
                   /\ r2.L.nodes[node].size = lib.nodes[node].size
                   /\ r2.L.nodes[newnode].size = lib.nodes[newnode].size

\* two files of different sizes have been exchanged, in the kernel and in the
\* library
C29_Exchanged ==
    /\ last.op = "exchange" /\ last.ret = 0
    /\ vn["fvp"].filesize # vn["tvp"].filesize
    /\ ~vn["fvp"].attr_valid /\ ~vn["tvp"].attr_valid /\ ~vn[DirVnode].attr_valid
    /\ lib.nodes[2].used /\ lib.nodes[3].used
    /\ lib.nodes[2].size # lib.nodes[3].size
    /\ ~lib.nodes[2].cache_valid /\ ~lib.nodes[3].cache_valid
    /\ Len(lib.issued) = 1

\* C30: a thread that is in an endpoint operation and has read fdev->data
\* holds the mutex of the slot, and the pointer it has read is not one to a
\* session that a close has destroyed.
C30_PointerUnderSlotMutex ==
    \A t \in Threads :
        thr.at[t] \in {"read_315", "write_419", "select_713", "close_258",
                       "close_260"} =>
            /\ thr.mtx = t
            /\ thr.ptr[t] \notin thr.destroyed

\* a close has destroyed the session, and returned, while another thread was
\* between reading fdev->data and using it
C30_UsedAfterClose ==
    /\ last.op = "close"
    /\ \E t \in Threads :
           /\ thr.at[t] \in {"read_315", "write_419", "select_713"}
           /\ thr.ptr[t] \in thr.destroyed
           /\ thr.mtx # t

\* C31: the ticket of every request that a read of the device delivers was
\* in the awaited set when it was put on the outbound queue, and so was every
\* ticket that waits on the outbound queue.
C31_AwaitedBeforeSent ==
    /\ \A i \in 1..Len(ms_head) : tk[ms_head[i]].awaited_first
    /\ \A nd \in BOOLEAN, resid \in ReadSizes :
           fuse_device_read(Kernel, nd, resid).copied =>
               tk[Head(ms_head)].awaited_first

\* C31, amended: the same of every request but FORGET, which has no reply:
\* it is put on the outbound queue without a callback and is delivered
\* though it was never in the awaited set.
C31_AwaitedBeforeSentButForget ==
    /\ \A i \in 1..Len(ms_head) :
           tk[ms_head[i]].awaited_first
               <=> tk[ms_head[i]].opcode # "FORGET"
    /\ \A nd \in BOOLEAN, resid \in ReadSizes :
           fuse_device_read(Kernel, nd, resid).copied =>
               (tk[Head(ms_head)].awaited_first
                   <=> tk[Head(ms_head)].opcode # "FORGET")

\* a read has delivered a request that is awaited, while a FORGET waits on
\* the outbound queue
C31_DeliveredAwaited ==
    /\ last.op = "read" /\ last.ret = 0 /\ last.unique # 0
    /\ \E i \in 1..Len(aw_head) :
           /\ tk[aw_head[i]].tk_unique = last.unique
           /\ tk[aw_head[i]].awaited_first
    /\ \E i \in 1..Len(ms_head) : tk[ms_head[i]].opcode = "FORGET"

\* C32: the mutexes are taken in the order of the hierarchy: no thread takes
\* the global mutex of the device table while it holds the mutex of a slot.
C32_GlobalBeforeSlot ==
    [][\A t \in Threads :
          (thr'.gmtx = t /\ thr.gmtx # t) => thr.mtx # t]_vars

\* an open that found a lingering session has taken the global mutex at line
\* 209 while it holds the mutex of the slot, which it took at line 195
C32_GlobalTakenUnderSlot ==
    \E t \in Threads :
        /\ thr.at[t] = "open_213"
        /\ thr.mtx = t
        /\ thr.gmtx = t
        /\ thr.session # 0

\* C35: an open never counts itself into a slot, locks its mutex or binds a
\* session to it after fuse_devices_stop has freed the mutexes of the slots.
C35_NoOpenAfterStop ==
    ~drv.mtx[1] =>
        /\ fdev.usecount = 0
        /\ ~fdev.data
        /\ \A t \in Threads :
               thr.at[t] \notin {"open_195", "open_197", "open_200",
                                 "open_213"}

\* fuse_devices_stop has succeeded and freed the mutexes while an open was
\* between its check of fuse_interface_available and the global mutex; the
\* open has gone on to count itself into the slot and is at the lock of the
\* freed mutex
C35_OpenLocksFreedMutex ==
    /\ ~drv.mtx[1]
    /\ drv.fuse_cdev_major = -1
    /\ fdev.usecount = 1
    /\ \E t \in Threads : thr.at[t] = "open_195" /\ thr.gmtx = t

\* C33: a RENAME that fails leaves the inode table and the files of the file
\* system as they were before the request: whatever rename the kernel asks
\* for in the current state, if the reply is an error then no node and no
\* file name has changed.
C33_FailedRenameChangesNothing ==
    \A olddir, newdir \in NodeIds, oldname, newname \in FileNames,
       denyhide, deny \in BOOLEAN :
        (/\ Known(olddir) /\ Known(newdir)
         /\ lookup_node(lib, olddir, oldname) # 0) =>
            LET r == fuse_lib_rename(Serving, olddir, oldname, newdir,
                                     newname, denyhide, deny)
            IN  r.err # 0 => r.L.nodes = lib.nodes /\ r.L.fs = lib.fs

\* a RENAME has failed after it hid its open target: the file system was
\* asked for two renames, the first of which gave the target the hidden name
\* under which its node, still open, is now known
C33_TargetLeftHidden ==
    /\ last.op = "rename" /\ last.ret # 0
    /\ Len(lib.issued) = 2
    /\ \E i \in NodeIds :
           /\ lib.nodes[i].used /\ lib.nodes[i].is_hidden
           /\ lib.nodes[i].open_count > 0
           /\ lib.issued[1][1] = "rename"
           /\ lib.issued[1][3] = get_path(lib, i)
           /\ lib.issued[1][3] \in lib.fs
           /\ lib.issued[1][2] \notin lib.fs

\* C34: a node that is marked hidden is open, and no node has an open count
\* below zero: the count of every node that a RELEASE can name is positive
\* when fuse_do_release asserts it, and not negative after it.
C34_HiddenIsOpen ==
    \A i \in NodeIds :
        /\ lib.nodes[i].open_count >= 0
        /\ lib.nodes[i].is_hidden =>
               lib.nodes[i].used /\ lib.nodes[i].open_count > 0
        /\ (lib.nodes[i].used /\ lib.nodes[i].open_count > 0) =>
               \A deny \in BOOLEAN :
                   LET n == fuse_do_release(Serving, i, deny).L.nodes[i]
                   IN  n.open_count >= 0 /\ (n.is_hidden => n.open_count > 0)

\* a RELEASE has been served that left a hidden node open, and another that
\* was the last of a hidden node, which is hidden no more
C34_ReleasedHidden ==
    /\ last.op = "release"
    /\ \E i, j \in NodeIds :
           /\ lib.nodes[i].used /\ lib.nodes[i].is_hidden
           /\ lib.nodes[i].open_count > 0
           /\ lib.nodes[j].used /\ ~lib.nodes[j].is_hidden
           /\ lib.nodes[j].open_count = 0
           /\ lib.nodes[j].name[1] = ".fuse_hidden"

\* C36: the write loop of fuse_internal_strategy ends, whatever the server
\* answers to the WRITE requests.
C36_WriteLoopEnds == <>(vn.at = "out")

\* the loop has dispatched WRITE again and again, the server has answered
\* each with a written size of 0, and as many bytes are left as at the start
C36_NothingWritten ==
    /\ vn.at = "write_1376"
    /\ vn.dispatched = MaxDispatch
    /\ last.op = "write_answ" /\ last.ret = 0
    /\ vn.left = vn.count
    /\ vn.resid = vn.count

\* FUSE_KPI_GEQ(M, m), with the version that is compared given as
\* (major, minor) in place of FUSE_KERNEL_VERSION and
\* FUSE_KERNEL_MINOR_VERSION
FUSE_KPI_GEQ(major, minor, M, m) ==
    major > M \/ (major = M /\ minor >= m)

\* C37: the version of an INIT reply is accepted exactly when (major, minor)
\* is at least the minimum the kernel supports in the order in which
\* FUSE_KPI_GEQ compares versions; a higher major is accepted with any minor.
C37_AcceptedIffAtLeastMinimum ==
    \A t \in Tickets, fiio \in InitReplies :
        (Woken(t, {"INIT"}) /\ TicketError(Kernel, t) = 0) =>
            (InitError(Kernel, t, fiio) # EPROTONOSUPPORT
                <=> FUSE_KPI_GEQ(fiio.major, fiio.minor, 0, 0))

\* the server has answered INIT without an error: a reply whose major is
\* above the minimum and whose minor is below the minimum minor is refused
\* with EPROTONOSUPPORT and the session is marked dead
C37_NewerMajorRefused ==
    \E t \in Tickets :
        /\ Woken(t, {"INIT"}) /\ TicketError(Kernel, t) = 0 /\ ~data.dead
        /\ LET fiio == [major |-> 1, minor |-> -1, lenok |-> TRUE,
                        xtimes |-> FALSE]
               i == fuse_internal_send_init_answ(Kernel, t, fiio)
           IN  /\ FUSE_KPI_GEQ(fiio.major, fiio.minor, 0, 0)
               /\ InitError(Kernel, t, fiio) = EPROTONOSUPPORT
               /\ i.K.data.dead

\* the types of the locks of the list that the owner holds on byte b
Held(ls, owner, b) ==
    {ls[k].type : k \in {j \in 1..Len(ls) : /\ ls[j].owner = owner
                                             /\ ls[j].start <= b
                                             /\ b <= ls[j].end}}

\* the locks of the owner in the list, in the order of the list
LocksOf(ls, owner) ==
    LET Mine(l) == l.owner = owner
    IN  SelectSeq(ls, Mine)

\* C38: after locks_insert of a lock for an owner and the bytes start to end,
\* the owner holds on each of these bytes a lock of the new type and no
\* other, or none if the lock is an unlock, and on every other byte what it
\* held before; the locks of the other owners are as they were, and no two
\* stored ranges of the owner have a byte in common.
C38_LocksInsert ==
    \A lock \in LockRequests :
        LET ls == locks_insert(lib.locks, 1, lock)
        IN  /\ \A b \in Offsets :
                   Held(ls, lock.owner, b) =
                       IF lock.start <= b /\ b <= lock.end
                       THEN IF lock.type = "F_UNLCK" THEN {}
                            ELSE {lock.type}
                       ELSE Held(lib.locks, lock.owner, b)
            /\ \A o \in LockOwners \ {lock.owner} :
                   LocksOf(ls, o) = LocksOf(lib.locks, o)
            /\ \A j, k \in 1..Len(ls) :
                   (j # k /\ ls[j].owner = lock.owner
                          /\ ls[k].owner = lock.owner) =>
                       ls[j].end < ls[k].start \/ ls[k].end < ls[j].start

\* a SETLK has split a lock of the owner in two: the owner holds three
\* locks, the middle one of another type than the two around it, among the
\* locks of another owner
C38_SplitInTwo ==
    /\ last.op = "setlk" /\ last.ret = 0
    /\ \E i, j, k \in 1..Len(lib.locks) :
           /\ i < j /\ j < k
           /\ lib.locks[i].owner = lib.locks[j].owner
           /\ lib.locks[j].owner = lib.locks[k].owner
           /\ lib.locks[i].type = lib.locks[k].type
           /\ lib.locks[i].type # lib.locks[j].type
           /\ lib.locks[i].end + 1 = lib.locks[j].start
           /\ lib.locks[j].end + 1 = lib.locks[k].start
    /\ \E i, j \in 1..Len(lib.locks) :
           lib.locks[i].owner # lib.locks[j].owner

\* C39: a read of the device whose buffer is too small for the request it
\* would deliver marks the session dead and returns an error, copies nothing,
\* and does not put the ticket it has popped back on the outbound queue.
C39_ShortBufferKills ==
    \A ndelay \in BOOLEAN, resid \in ReadSizes :
        (/\ fdev.data /\ ~fdata_dead_get(Kernel)
         /\ ms_head # <<>>
         /\ ~fticket_answered(Kernel, Head(ms_head))
         /\ resid < FiovLen(Kernel, Head(ms_head))) =>
            LET r == fuse_device_read(Kernel, ndelay, resid)
                R == fuse_ticket_release(r.K)
            IN  /\ fdata_dead_get(r.K)
                /\ r.ret = ENODEV
                /\ ~r.copied /\ ~r.sleep
                /\ \A i \in 1..Len(R.ms) : R.ms[i] # Head(ms_head)
                /\ Len(r.K.ms) < Len(ms_head)

\* a read has popped a request for which its buffer was too small: it has
\* returned ENODEV, the session is dead, and no ticket of the outbound queue
\* has the id of that request
C39_ShortRead ==
    /\ last.op = "read" /\ last.ret = ENODEV /\ last.unique # 0
    /\ fdev.data /\ data.dead
    /\ \A i \in 1..Len(ms_head) : tk[ms_head[i]].tk_unique # last.unique

\* the nodes that are entered under node i as their parent
ChildrenOf(L, i) == {j \in NodeIds : L.nodes[j].used /\ L.nodes[j].parent = i}

\* C40: the reference count of every node of the table is the number of
\* nodes entered under it as their parent, plus one if its lookup count is
\* not zero; a node is in the table as long as that count is above zero and
\* no longer, the count is never below zero, and a node that has a name has
\* a lookup count above zero, so that no node is freed while it has a name.
C40_RefctrCountsChildren ==
    \A i \in NodeIds :
        IF lib.nodes[i].used
        THEN /\ lib.nodes[i].refctr =
                    Cardinality(ChildrenOf(lib, i))
                    + (IF lib.nodes[i].nlookup > 0 THEN 1 ELSE 0)
             /\ lib.nodes[i].refctr > 0
             /\ lib.nodes[i].nlookup >= 0
             /\ lib.nodes[i].name # NoName => lib.nodes[i].nlookup > 0
             /\ lib.nodes[i].parent # 0 =>
                    /\ lib.nodes[lib.nodes[i].parent].used
                    /\ lib.nodes[i].name # NoName
        ELSE lib.nodes[i] = NoNode /\ ChildrenOf(lib, i) = {}

\* a FORGET has brought the lookup count of a directory to zero while a node
\* is entered under it: the directory has lost its name and stays in the
\* table, with the reference of its child alone
C40_KeptByChild ==
    /\ last.op = "forget"
    /\ \E i \in NodeIds \ {FUSE_ROOT_ID} :
           /\ lib.nodes[i].used
           /\ lib.nodes[i].nlookup = 0
           /\ lib.nodes[i].name = NoName
           /\ lib.nodes[i].refctr = 1
           /\ Cardinality(ChildrenOf(lib, i)) = 1

============================================================================
